---- MODULE Spec2Model ----
(***************************************************************************)
(* A model of the Trello Power-Ups repository: the pause/resume ledger of  *)
(* Time in List, the business-minutes calendar engine, the card history    *)
(* reconstructor and the List Report pipeline (fetch with retry, member    *)
(* aggregation, CSV totals).                                               *)
(*                                                                         *)
(* The module holds several specifications over one set of variables.      *)
(* Each specification drives one group of variables and leaves the other   *)
(* groups at their idle values:                                            *)
(*   Spec       - the pause ledger of one card (src/time-in-list)          *)
(*   SpecBiz    - calculateBusinessMinutes on bounded inputs               *)
(*   SpecHist   - buildCardHistory and the list-report movement helpers on *)
(*                bounded action lists                                     *)
(*   SpecReport - generateReport / aggregateCardData with failing fetches  *)
(*   SpecAgg    - the counting loop of aggregateCardData and generateCSV   *)
(*   SpecDue    - getCardCompletionDate and the On Time / Past Due counts  *)
(*                of one card                                              *)
(*   SpecHol    - isBusinessDay and calculateBusinessMinutes on the        *)
(*                README's holidays                                        *)
(***************************************************************************)
EXTENDS Integers, Sequences, FiniteSets, TLC

VARIABLES
  \* ---- pause ledger (card-private and board-private storage) ----
  pauseEvents,   \* t.get("card","private","pauseEvents"): sequence of events
  lastListId,    \* t.get("card","private","lastListId")
  pauseLists,    \* t.get("board","private","pauseLists")
  idList,        \* the list the card is in (t.card("idList"))
  clock,         \* the wall clock read by new Date()
  lastOp,        \* the operation that ran last
  toggleRet,     \* the boolean returned by the last togglePauseResume
  autoOpenList,  \* history: the list whose entry opened the running auto pause
  autoOnly,      \* history: the ledger started empty, no toggle ran and the
                 \* configuration was not saved again after the first check
  \* ---- calculateBusinessMinutes on three instants a, b, c ----
  bizA, bizB, bizC,      \* the instants: [day, ms] in local time
  bizAB, bizBC, bizAC,   \* calculateBusinessMinutes(a,b), (b,c), (a,c)
  bizPc,                 \* "ready" before the calls, "done" after
  \* ---- buildCardHistory and the list-report helpers on one action list ----
  histActions,   \* the actions of the card as fetched
  histCardId,    \* the card id: a sequence of characters
  histOut,       \* the returned history
  histPc,        \* "ready", "done" after buildCardHistory, "days" after
                 \* getDaysFromCurrentWorkToReleased
  histLists,     \* the ids of the current-work and of the released list
  histMoves,     \* what getListMovementsChronological returned
  histDays,      \* what getDaysFromCurrentWorkToReleased returned
  \* ---- one run of the List Report pipeline ----
  repEntry,      \* the exported function that was called
  repPc,         \* where the run is: the await it is at, or "done"
  repQaGetter,   \* typeof window.ListReport.api.getQaListId
  repSingle,     \* USE_SINGLE_CARD_FETCH (constants.js)
  repCards,      \* the cards of the list
  repIdx,        \* the card whose data is being fetched (1-based)
  repFetch,      \* per request of that card: the state of its fetchWithRetry
  repNames,      \* memberNames: member id -> the name kept for it
  repAlert,      \* the display of the last t.alert / the popup shown
  repError,      \* the error thrown: its message and the card it names
  repDownloads,  \* the number of calls of downloadCSV
  repFailed,     \* history: the fetches of the report that failed
  repResult,     \* the promise of a direct aggregateCardData call
  repSettings,   \* the list ids read from board storage: the keys that are set
  repHeader,     \* the optional columns of the header of the downloaded CSV
  \* ---- the counting loop of aggregateCardData and generateCSV ----
  aggCards,      \* the fetched cards
  aggSizeField,  \* the board has a custom field named "size"
  aggDaysField,  \* the board has a custom field named "days to release"
  aggData,       \* the result of aggregateCardData
  aggCsv,        \* the result of generateCSV: header, rows, totals row
  aggPc,         \* "ready", "aggregated", "done"
  \* ---- the On Time / Past Due counts of one card ----
  dueActions,    \* the actions of the card as fetched
  dueCard,       \* the card: its members and its due date
  dueCompletion, \* what getCardCompletionDate returned
  dueData,       \* memberData of aggregateCardData for this card
  duePc,         \* "ready", "completion", "done"
  \* ---- isBusinessDay and calculateBusinessMinutes on a README holiday ----
  holYear,       \* the year
  holName,       \* which holiday of the README's list
  holStart,      \* the start of the interval: a time of that day
  holEnd,        \* its end: a time of that day
  holBusinessDay, \* what isBusinessDay returned for the day
  holHolidays,   \* holidaysByYear[year]: the list getHolidaysForYear returned
  holMinutes,    \* what calculateBusinessMinutes returned for the interval
  holPc,         \* "ready", "checked", "done"
  \* ---- formatBusinessTime on one number of minutes ----
  fmtMinutes,    \* totalMinutes
  fmtOut,        \* the returned string
  fmtPc,         \* "ready" before the call, "done" after
  \* ---- escapeCSV on one value ----
  csvValue,      \* the value: [kind, chars] with kind "null", "undefined" or
                 \* "string" and chars the characters of the string
  csvOut,        \* the returned string: a sequence of characters
  csvPc,         \* "ready" before the call, "done" after
  \* ---- calculateCurrentListTime on one card ----
  curApi,        \* "ok", "noToken" (no token stored), "fetchFailed"
  curEntered,    \* enteredAt of the last history entry, NullInstant when the
                 \* history is empty
  curCardId,     \* card.id
  curEvents,     \* the stored pause events
  curNow,        \* new Date()
  curStart,      \* startDate
  curTotal,      \* totalMinutes
  curPaused,     \* pausedMinutes
  curActive,     \* activeMinutes
  curResult,     \* "pending", "null" (returned null), "raised" or the
                 \* duration string of the returned object
  curPc,         \* "ready" before the call, "done" after
  \* ---- operations on one card interleaved at their awaits ----
  ilvEvents,     \* t.get("card","private","pauseEvents")
  ilvLastListId, \* t.get("card","private","lastListId")
  ilvPauseLists, \* t.get("board","private","pauseLists")
  ilvIdList,     \* the list the card is in
  ilvClock,      \* the last value new Date() returned
  ilvProc,       \* per running operation: its name, its position and its
                 \* local variables
  ilvSerial,     \* history: no operation has run a step while another one
                 \* was between its first and its last step
  \* ---- startCaseCallback on one card ----
  scToken,       \* getAuthToken returns a token
  scBoard,       \* the board: it has a list "IN DEVELOPMENT", it has a custom
                 \* field "Days to Release"
  scDays,        \* the card's "Days to Release" number, NoDays when not set
  scCard,        \* the card at Trello: idList, idMembers, due
  scAlert,       \* the alert or popup shown last
  scApplied,     \* history: the mutations the PUT requests have applied
  scPc           \* the await the callback is at

pauseVars == <<pauseEvents, lastListId, pauseLists, idList, clock, lastOp,
               toggleRet, autoOpenList, autoOnly>>

bizVars == <<bizA, bizB, bizC, bizAB, bizBC, bizAC, bizPc>>

histVars == <<histActions, histCardId, histOut, histPc, histLists, histMoves,
              histDays>>

repVars == <<repEntry, repPc, repQaGetter, repSingle, repCards, repIdx,
             repFetch, repNames, repAlert, repError, repDownloads, repFailed,
             repResult, repSettings, repHeader>>

aggVars == <<aggCards, aggSizeField, aggDaysField, aggData, aggCsv, aggPc>>

dueVars == <<dueActions, dueCard, dueCompletion, dueData, duePc>>

holVars == <<holYear, holName, holStart, holEnd, holBusinessDay, holHolidays,
             holMinutes, holPc>>

fmtVars == <<fmtMinutes, fmtOut, fmtPc>>

csvVars == <<csvValue, csvOut, csvPc>>

curVars == <<curApi, curEntered, curCardId, curEvents, curNow, curStart,
             curTotal, curPaused, curActive, curResult, curPc>>

ilvVars == <<ilvEvents, ilvLastListId, ilvPauseLists, ilvIdList, ilvClock,
             ilvProc, ilvSerial>>

scVars == <<scToken, scBoard, scDays, scCard, scAlert, scApplied, scPc>>

vars == <<pauseVars, bizVars, histVars, repVars, aggVars, dueVars, holVars,
          fmtVars, csvVars, curVars, ilvVars, scVars>>

(***************************************************************************)
(* Pause ledger: src/time-in-list/power-up.js                              *)
(***************************************************************************)

\* Bounds of the ledger model.
MaxEvents == 3
MaxClock == 3

\* The lists of the board.
Lists == {"L1", "L2", "L3"}

\* lastListId before any check stored it (t.get gives undefined).
NoList == "undefined"

\* A null / absent timestamp; real timestamps are 1..MaxClock.
NoTime == 0

\* An event stored by a version that wrote no reason field.
NoReason == "absent"

isCardPaused(ev) ==
  IF Len(ev) = 0 THEN FALSE
  ELSE LET lastEvent == ev[Len(ev)]
       IN  lastEvent.pausedAt # NoTime /\ lastEvent.resumedAt = NoTime

isLastPauseAutoIgnoringReason(ev) ==
  IF Len(ev) = 0 THEN FALSE
  ELSE LET lastEvent == ev[Len(ev)]
       IN  lastEvent.pausedAt # NoTime /\ lastEvent.resumedAt = NoTime

isLastPauseAuto(ev) ==
  IF Len(ev) = 0 THEN FALSE
  ELSE LET lastEvent == ev[Len(ev)]
           isPaused == lastEvent.pausedAt # NoTime /\ lastEvent.resumedAt = NoTime
           reason == IF lastEvent.reason # NoReason THEN lastEvent.reason
                     ELSE "manual"
       IN  isPaused /\ reason = "auto"

isListInPauseLists(listId, pl) == listId \in pl

savePauseEventOverwritingReason(ev, pausedAt, resumedAt, reason) ==
  IF pausedAt # NoTime /\ resumedAt = NoTime
  THEN Append(ev, [pausedAt |-> pausedAt, resumedAt |-> NoTime, reason |-> reason])
  ELSE IF resumedAt # NoTime /\ Len(ev) > 0
       THEN IF ev[Len(ev)].resumedAt = NoTime
            THEN [ev EXCEPT ![Len(ev)].resumedAt = resumedAt,
                            ![Len(ev)].reason = reason]
            ELSE ev
       ELSE ev

\* The sequence savePauseEvent writes back with t.set.
savePauseEvent(ev, pausedAt, resumedAt, reason) ==
  IF pausedAt # NoTime /\ resumedAt = NoTime
  THEN Append(ev, [pausedAt |-> pausedAt, resumedAt |-> NoTime, reason |-> reason])
  ELSE IF resumedAt # NoTime /\ Len(ev) > 0
       THEN IF ev[Len(ev)].resumedAt = NoTime
            THEN [ev EXCEPT ![Len(ev)].resumedAt = resumedAt]
            ELSE ev
       ELSE ev

checkEventsWithoutPausedTest(ev, lastL, cur, pl, now) ==
  IF lastL # cur
  THEN IF isListInPauseLists(cur, pl)
       THEN savePauseEvent(ev, now, NoTime, "auto")
       ELSE IF isListInPauseLists(lastL, pl) /\ isLastPauseAuto(ev)
            THEN savePauseEvent(ev, NoTime, now, "manual")
            ELSE ev
  ELSE ev

\* The pauseEvents left in storage by checkAndHandleAutoPauseResume.
checkEvents(ev, lastL, cur, pl, now) ==
  IF lastL # cur
  THEN IF isListInPauseLists(cur, pl) /\ ~isCardPaused(ev)
       THEN savePauseEvent(ev, now, NoTime, "auto")
       ELSE IF isListInPauseLists(lastL, pl) /\ isLastPauseAuto(ev)
            THEN savePauseEvent(ev, NoTime, now, "manual")
            ELSE ev
  ELSE ev

\* The pauseEvents left in storage by togglePauseResume.
toggleEvents(ev, now) ==
  IF isCardPaused(ev)
  THEN savePauseEvent(ev, NoTime, now, "manual")
  ELSE savePauseEvent(ev, now, NoTime, "manual")

\* The boolean togglePauseResume returns.
toggleResult(ev) == ~isCardPaused(ev)

InitPause ==
  /\ pauseEvents \in
       {<<>>, <<[pausedAt |-> 1, resumedAt |-> NoTime, reason |-> NoReason]>>}
  /\ lastListId = NoList
  /\ pauseLists = {}
  /\ idList \in Lists
  /\ clock = 1
  /\ lastOp = "none"
  /\ toggleRet = "none"
  /\ autoOpenList = NoList
  /\ autoOnly = (pauseEvents = <<>>)

IdlePause ==
  /\ pauseEvents = <<>>
  /\ lastListId = NoList
  /\ pauseLists = {}
  /\ idList = "L1"
  /\ clock = 1
  /\ lastOp = "none"
  /\ toggleRet = "none"
  /\ autoOpenList = NoList
  /\ autoOnly = TRUE

\* The user drags the card to another list.
MoveCard ==
  \E l \in Lists \ {idList} :
    /\ idList' = l
    /\ lastOp' = "move"
    /\ UNCHANGED <<pauseEvents, lastListId, pauseLists, clock, toggleRet,
                   autoOpenList, autoOnly>>

\* The settings page saves the auto-pause lists.
SetPauseListsConfig ==
  \E listIds \in SUBSET Lists :
    /\ pauseLists' = listIds
    /\ lastOp' = "config"
    /\ autoOnly' = (autoOnly /\ lastListId = NoList)
    /\ UNCHANGED <<pauseEvents, lastListId, idList, clock, toggleRet,
                   autoOpenList>>

\* card-badges renders: checkAndHandleAutoPauseResume runs to completion.
CheckAndHandleAutoPauseResume ==
  \E now \in clock..MaxClock :
    LET newEvents == checkEvents(pauseEvents, lastListId, idList, pauseLists, now)
    IN  /\ Len(newEvents) <= MaxEvents
        /\ clock' = now
        /\ pauseEvents' = newEvents
        /\ lastListId' = idList
        /\ lastOp' = "check"
        /\ autoOpenList' =
             IF Len(newEvents) > Len(pauseEvents) THEN idList
             ELSE IF ~isCardPaused(newEvents) \/ idList # autoOpenList
                  THEN NoList
                  ELSE autoOpenList
        /\ UNCHANGED <<pauseLists, idList, toggleRet, autoOnly>>

\* The pause/resume button: togglePauseResume runs to completion.
TogglePauseResume ==
  \E now \in clock..MaxClock :
    LET newEvents == toggleEvents(pauseEvents, now)
    IN  /\ Len(newEvents) <= MaxEvents
        /\ clock' = now
        /\ pauseEvents' = newEvents
        /\ toggleRet' = toggleResult(pauseEvents)
        /\ lastOp' = "toggle"
        /\ autoOpenList' = NoList
        /\ autoOnly' = FALSE
        /\ UNCHANGED <<lastListId, pauseLists, idList>>


(***************************************************************************)
(* Calendar engine: src/unnamed/part_002                                   *)
(*                                                                         *)
(* A date is the number of its local calendar day, counted from 1970-01-01 *)
(* (day 0, a Thursday); months are 0-based as in JavaScript.  An instant   *)
(* is [day, ms]: the local calendar day and the milliseconds since its     *)
(* 00:00.  The local time zone has no daylight-saving change, so every day *)
(* has MsPerDay milliseconds.                                              *)
(***************************************************************************)

MsPerMinute == 60 * 1000
MsPerHour == 60 * MsPerMinute
MsPerDay == 24 * MsPerHour

\* Days from 1970-01-01 to year y, 0-based month m, day d (proleptic Gregorian).
DaysFromCivil(y, m, d) ==
  LET m1 == m + 1
      yy == IF m1 <= 2 THEN y - 1 ELSE y
      era == yy \div 400
      yoe == yy - era * 400
      mp == IF m1 > 2 THEN m1 - 3 ELSE m1 + 9
      doy == (153 * mp + 2) \div 5 + d - 1
      doe == yoe * 365 + yoe \div 4 - yoe \div 100 + doy
  IN  era * 146097 + doe - 719468

\* The [year, month, date] of a day number.
CivilFromDays(n) ==
  LET z == n + 719468
      era == z \div 146097
      doe == z - era * 146097
      yoe == (doe - doe \div 1460 + doe \div 36524 - doe \div 146096) \div 365
      doy == doe - (365 * yoe + yoe \div 4 - yoe \div 100)
      mp == (5 * doy + 2) \div 153
      d == doy - (153 * mp + 2) \div 5 + 1
      m1 == IF mp < 10 THEN mp + 3 ELSE mp - 9
      y == yoe + era * 400 + (IF m1 <= 2 THEN 1 ELSE 0)
  IN  [year |-> y, month |-> m1 - 1, date |-> d]

\* new Date(year, month, day): month and day outside their range carry over.
JSDate(year, month, day) ==
  DaysFromCivil(year + month \div 12, month % 12, 1) + day - 1

\* dayjs(...).year() and .day() (0 = Sunday) of a day number.
YearOf(n) == CivilFromDays(n).year
DayOfWeek(n) == (n + 4) % 7

HOLIDAY_RULES ==
  [fixed |-> << [month |-> 0, day |-> 1],
                [month |-> 6, day |-> 4],
                [month |-> 11, day |-> 25],
                [month |-> 12, day |-> 31],
                [month |-> 7, day |-> 14] >>,
   floating |-> << [month |-> 0, dayOfWeek |-> 1, week |-> 3],
                   [month |-> 4, dayOfWeek |-> 1, week |-> -1],
                   [month |-> 8, dayOfWeek |-> 1, week |-> 1],
                   [month |-> 10, dayOfWeek |-> 4, week |-> 4] >>]

\* while (day.day() !== rule.dayOfWeek) day = day.subtract(1, "day")
RECURSIVE LastOccurrence(_, _)
LastOccurrence(day, dayOfWeek) ==
  IF DayOfWeek(day) # dayOfWeek THEN LastOccurrence(day - 1, dayOfWeek)
  ELSE day

\* while (count < rule.week) { ... }
RECURSIVE NthOccurrence(_, _, _, _)
NthOccurrence(day, count, dayOfWeek, week) ==
  IF count < week
  THEN IF DayOfWeek(day) = dayOfWeek
       THEN IF count + 1 < week
            THEN NthOccurrence(day + 7, count + 1, dayOfWeek, week)
            ELSE NthOccurrence(day, count + 1, dayOfWeek, week)
       ELSE NthOccurrence(day + 1, count, dayOfWeek, week)
  ELSE day

\* The scan counting one week too many.
FloatingHolidayOneWeekLate(year, rule) ==
  IF rule.week = -1
  THEN LastOccurrence(JSDate(year, rule.month + 1, 0), rule.dayOfWeek)
  ELSE NthOccurrence(JSDate(year, rule.month, 1), 0, rule.dayOfWeek, rule.week + 1)

FloatingHoliday(year, rule) ==
  IF rule.week = -1
  THEN LastOccurrence(JSDate(year, rule.month + 1, 0), rule.dayOfWeek)
  ELSE NthOccurrence(JSDate(year, rule.month, 1), 0, rule.dayOfWeek, rule.week)

\* The dates getHolidaysForYear(year) lists ('YYYY-MM-DD' strings name days
\* one to one, so the list is kept as day numbers).
getHolidaysForYear(year) ==
  {JSDate(year, HOLIDAY_RULES.fixed[i].month, HOLIDAY_RULES.fixed[i].day) :
     i \in 1..Len(HOLIDAY_RULES.fixed)}
  \cup
  {FloatingHoliday(year, HOLIDAY_RULES.floating[i]) :
     i \in 1..Len(HOLIDAY_RULES.floating)}

\* The test without the holiday list.
isBusinessDayWithoutHolidays(day) ==
  /\ DayOfWeek(day) > 0
  /\ DayOfWeek(day) < 6

\* The list itself: the fixed holidays, then the floating ones, in the order
\* of the rules.
HolidaysInOrder(year) ==
  [i \in 1..Len(HOLIDAY_RULES.fixed) |->
     JSDate(year, HOLIDAY_RULES.fixed[i].month, HOLIDAY_RULES.fixed[i].day)]
  \o [i \in 1..Len(HOLIDAY_RULES.floating) |->
        FloatingHoliday(year, HOLIDAY_RULES.floating[i])]

\* The test of calculateBusinessMinutes and isBusinessDay on one day: a
\* weekday that is not in the holiday list of its own year.
isBusinessDay(day) ==
  /\ DayOfWeek(day) > 0
  /\ DayOfWeek(day) < 6
  /\ day \notin getHolidaysForYear(YearOf(day))

\* The result of parseInt on a string with no leading hex digit, and the time
\* value of an invalid Date (real values are never negative here).
NaN == -1

\* A Date or dayjs object as [day, ms]: the day number and the time of day;
\* an invalid one has NaN in both.
IsValid(x) == x.ms # NaN

\* x.isBefore(y), x < y: false when either time value is NaN.
IsBefore(x, y) ==
  /\ IsValid(x)
  /\ IsValid(y)
  /\ x.day < y.day \/ (x.day = y.day /\ x.ms < y.ms)

\* x.diff(y, "minute") for two instants of one day: whole minutes, truncated
\* towards zero.
DiffMinutes(xMs, yMs) ==
  IF xMs >= yMs THEN (xMs - yMs) \div MsPerMinute
  ELSE -((yMs - xMs) \div MsPerMinute)

\* The while loop of calculateBusinessMinutes: currentDate starts at
\* startDate and keeps its time of day as it advances one day at a time.
RECURSIVE BusinessLoop(_, _, _, _)
BusinessLoop(currentDate, startDate, endDate, totalMinutes) ==
  IF IsBefore(currentDate, endDate)
  THEN LET effectiveStart == IF currentDate.day = startDate.day
                             THEN startDate.ms ELSE 0
           effectiveEnd == IF currentDate.day = endDate.day
                           THEN endDate.ms ELSE MsPerDay - 1
           added == IF isBusinessDay(currentDate.day)
                    THEN DiffMinutes(effectiveEnd, effectiveStart)
                    ELSE 0
       IN  BusinessLoop([currentDate EXCEPT !.day = @ + 1], startDate, endDate,
                        totalMinutes + added)
  ELSE totalMinutes

calculateBusinessMinutes(startDate, endDate) ==
  BusinessLoop(startDate, startDate, endDate, 0)

\* Bounds of the inputs: BizSpanDays + 1 consecutive days from Thursday
\* 2025-05-22 (two weekends, Memorial Day, Monday 2025-05-26, and Monday
\* 2025-06-02 lie inside).
BizSpanDays == 11
BizFirstDay == DaysFromCivil(2025, 4, 22)
BizDays == BizFirstDay..(BizFirstDay + BizSpanDays)
BizTimes == {0, 9 * MsPerHour, 12 * MsPerHour + 30 * 1000, 17 * MsPerHour}
BizInstants == [day : BizDays, ms : BizTimes]

NotComputed == "none"

InitBiz ==
  /\ bizA \in BizInstants
  /\ bizB \in BizInstants
  /\ bizC \in BizInstants
  /\ bizAB = NotComputed
  /\ bizBC = NotComputed
  /\ bizAC = NotComputed
  /\ bizPc = "ready"

IdleBiz ==
  /\ bizA = [day |-> BizFirstDay, ms |-> 0]
  /\ bizB = [day |-> BizFirstDay, ms |-> 0]
  /\ bizC = [day |-> BizFirstDay, ms |-> 0]
  /\ bizAB = NotComputed
  /\ bizBC = NotComputed
  /\ bizAC = NotComputed
  /\ bizPc = "ready"

\* The three calls of calculateBusinessMinutes.
CalculateBusinessMinutes ==
  /\ bizPc = "ready"
  /\ bizAB' = calculateBusinessMinutes(bizA, bizB)
  /\ bizBC' = calculateBusinessMinutes(bizB, bizC)
  /\ bizAC' = calculateBusinessMinutes(bizA, bizC)
  /\ bizPc' = "done"
  /\ UNCHANGED <<bizA, bizB, bizC>>

(***************************************************************************)
(* The holidays of the README's Business Time Rules, each in every year of *)
(* HolYears: isBusinessDay of the day and calculateBusinessMinutes of an   *)
(* interval inside it.                                                     *)
(***************************************************************************)

HolYearSpan == 3
HolYears == YearOf(BizFirstDay)..(YearOf(BizFirstDay) + HolYearSpan)

\* The n-th and the last day of a month that falls on a day of the week.
NthWeekdayOfMonth(year, month, dayOfWeek, n) ==
  CHOOSE d \in (DaysFromCivil(year, month, 1) + 7 * (n - 1))
                ..(DaysFromCivil(year, month, 1) + 7 * n - 1) :
    DayOfWeek(d) = dayOfWeek

LastWeekdayOfMonth(year, month, dayOfWeek) ==
  CHOOSE d \in (DaysFromCivil(year, month + 1, 1) - 7)
                ..(DaysFromCivil(year, month + 1, 1) - 1) :
    DayOfWeek(d) = dayOfWeek

\* The README's list (months 0-based, 1 = Monday, 4 = Thursday).
ReadmeHolidays ==
  {"New Year's Day", "Martin Luther King, Jr. Day", "Memorial Day",
   "Independence Day", "Labor Day", "Thanksgiving Day", "Christmas Day",
   "New Year's Eve"}

ReadmeHoliday(year, name) ==
  CASE name = "New Year's Day" -> DaysFromCivil(year, 0, 1)
    [] name = "Martin Luther King, Jr. Day" -> NthWeekdayOfMonth(year, 0, 1, 3)
    [] name = "Memorial Day" -> LastWeekdayOfMonth(year, 4, 1)
    [] name = "Independence Day" -> DaysFromCivil(year, 6, 4)
    [] name = "Labor Day" -> NthWeekdayOfMonth(year, 8, 1, 1)
    [] name = "Thanksgiving Day" -> NthWeekdayOfMonth(year, 10, 4, 4)
    [] name = "Christmas Day" -> DaysFromCivil(year, 11, 25)
    [] name = "New Year's Eve" -> DaysFromCivil(year, 11, 31)

InitHol ==
  /\ holYear \in HolYears
  /\ holName \in ReadmeHolidays
  /\ holStart \in BizTimes
  /\ holEnd \in BizTimes
  /\ holBusinessDay = FALSE
  /\ holHolidays = <<>>
  /\ holMinutes = 0
  /\ holPc = "ready"

IdleHol ==
  /\ holYear = YearOf(BizFirstDay)
  /\ holName = "New Year's Day"
  /\ holStart = 0
  /\ holEnd = 0
  /\ holBusinessDay = FALSE
  /\ holHolidays = <<>>
  /\ holMinutes = 0
  /\ holPc = "ready"

IsBusinessDay ==
  /\ holPc = "ready"
  /\ holBusinessDay' = isBusinessDay(ReadmeHoliday(holYear, holName))
  /\ holHolidays' = HolidaysInOrder(holYear)
  /\ holPc' = "checked"
  /\ UNCHANGED <<holYear, holName, holStart, holEnd, holMinutes>>

CalculateMinutesInsideDay ==
  /\ holPc = "checked"
  /\ holMinutes' =
       calculateBusinessMinutes(
         [day |-> ReadmeHoliday(holYear, holName), ms |-> holStart],
         [day |-> ReadmeHoliday(holYear, holName), ms |-> holEnd])
  /\ holPc' = "done"
  /\ UNCHANGED <<holYear, holName, holStart, holEnd, holBusinessDay,
                 holHolidays>>


(***************************************************************************)
(* History reconstructor: src/time-in-list/power-up.js                     *)
(*                                                                         *)
(* An action is [type, list, listBefore, listAfter, date]: a field the     *)
(* action does not carry is Absent; date is the instant of its ISO string  *)
(* in milliseconds.  A card id is a sequence of characters.                *)
(***************************************************************************)

Absent == "absent"

HexChars == <<"0", "1", "2", "3", "4", "5", "6", "7", "8", "9",
              "a", "b", "c", "d", "e", "f">>
HexUpper == <<"A", "B", "C", "D", "E", "F">>

IsHexChar(c) ==
  \/ \E i \in 1..Len(HexChars) : HexChars[i] = c
  \/ \E i \in 1..Len(HexUpper) : HexUpper[i] = c

HexValue(c) ==
  IF \E i \in 1..Len(HexChars) : HexChars[i] = c
  THEN (CHOOSE i \in 1..Len(HexChars) : HexChars[i] = c) - 1
  ELSE (CHOOSE i \in 1..Len(HexUpper) : HexUpper[i] = c) + 9

\* cardId.substring(0, 8)
Substring08(cardId) ==
  SubSeq(cardId, 1, IF Len(cardId) < 8 THEN Len(cardId) ELSE 8)

\* parseInt(str, 16): the value of the longest prefix of hex digits, NaN when
\* that prefix is empty.
RECURSIVE ParseHexPrefix(_, _, _)
ParseHexPrefix(str, i, acc) ==
  IF i <= Len(str) /\ IsHexChar(str[i])
  THEN ParseHexPrefix(str, i + 1, acc * 16 + HexValue(str[i]))
  ELSE acc

parseInt16(str) ==
  IF Len(str) = 0 \/ ~IsHexChar(str[1]) THEN NaN
  ELSE ParseHexPrefix(str, 1, 0)

\* The instant (ms) of the Date getCardCreationDate returns, NaN for an
\* invalid Date.
getCardCreationDate(cardId) ==
  LET timestamp == parseInt16(Substring08(cardId))
  IN  IF timestamp = NaN THEN NaN ELSE timestamp * 1000

\* The filter of buildCardHistory.
IsHistoryAction(action) ==
  \/ action.type = "createCard"
  \/ (action.type = "updateCard" /\ action.listAfter # Absent)

HistoryEntry(action) ==
  [listName |-> IF action.type = "createCard" THEN action.list
                ELSE action.listAfter,
   enteredAt |-> action.date]

RECURSIVE ReverseSeq(_)
ReverseSeq(sq) ==
  IF Len(sq) = 0 THEN <<>>
  ELSE Append(ReverseSeq(Tail(sq)), Head(sq))

MapHistory(sq) == [i \in 1..Len(sq) |-> HistoryEntry(sq[i])]

\* buildCardHistory without the reverse of the filtered actions.
buildCardHistoryUnreversed(actions, cardId) ==
  LET history == MapHistory(SelectSeq(actions, IsHistoryAction))
  IN  IF Len(history) > 0 /\ Len(actions) > 0
      THEN LET firstAction == actions[Len(actions)]
           IN  IF firstAction.type = "updateCard"
                  /\ firstAction.listBefore # Absent
               THEN LET creationDate == getCardCreationDate(cardId)
                    IN  IF creationDate = NaN THEN "RangeError"
                        ELSE <<[listName |-> firstAction.listBefore,
                                enteredAt |-> creationDate]>> \o history
               ELSE history
      ELSE history

\* What buildCardHistory returns; "RangeError" when toISOString is called on
\* an invalid Date.
buildCardHistory(actions, cardId) ==
  LET history == ReverseSeq(MapHistory(SelectSeq(actions, IsHistoryAction)))
  IN  IF Len(history) > 0 /\ Len(actions) > 0
      THEN LET firstAction == actions[Len(actions)]
           IN  IF firstAction.type = "updateCard"
                  /\ firstAction.listBefore # Absent
               THEN LET creationDate == getCardCreationDate(cardId)
                    IN  IF creationDate = NaN THEN "RangeError"
                        ELSE <<[listName |-> firstAction.listBefore,
                                enteredAt |-> creationDate]>> \o history
               ELSE history
      ELSE history

(***************************************************************************)
(* List movements of src/list-report/list-report-helpers.js.  The actions  *)
(* carry the list's name and id; the name is what buildCardHistory reads,  *)
(* the id what the helpers read.                                           *)
(***************************************************************************)

Null == -1

ListIdOf(name) == IF name = "A" THEN "idA" ELSE "idB"

MovementEntry(action) ==
  [listId |-> IF action.type = "createCard" THEN ListIdOf(action.list)
              ELSE ListIdOf(action.listAfter),
   enteredAt |-> action.date]

MapMovements(sq) == [i \in 1..Len(sq) |-> MovementEntry(sq[i])]

\* cardId is not used.
getListMovementsChronological(actions, cardId) ==
  ReverseSeq(MapMovements(SelectSeq(actions, IsHistoryAction)))

getFirstCardListEntryDate(actions, cardId, listId) ==
  LET movements == getListMovementsChronological(actions, cardId)
      found == {i \in 1..Len(movements) : movements[i].listId = listId}
  IN  IF found = {} THEN Null
      ELSE movements[CHOOSE i \in found : \A j \in found : i <= j].enteredAt

getCardListEntryDateBefore(actions, cardId, listId, beforeDate) ==
  LET movements == getListMovementsChronological(actions, cardId)
      matching == SelectSeq(movements,
                    LAMBDA m : m.listId = listId /\ m.enteredAt < beforeDate)
  IN  IF Len(matching) = 0 THEN Null
      ELSE matching[Len(matching)].enteredAt

\* Math.round: the nearest integer, a half rounded up.
MathRound(num, den) == (2 * num + den) \div (2 * den)

getDaysFromCurrentWorkToReleased(actions, cardId, currentWorkListId, releasedListId) ==
  LET releasedAt == getFirstCardListEntryDate(actions, cardId, releasedListId)
  IN  IF releasedAt = Null THEN Null
      ELSE LET currentWorkAt ==
                 getCardListEntryDateBefore(actions, cardId,
                                            currentWorkListId, releasedAt)
           IN  IF currentWorkAt = Null THEN Null
               ELSE MathRound(releasedAt - currentWorkAt, MsPerDay)

\* Bounds of the inputs.
MaxActions == 3
MaxActionTime == 3

ListNames == {"A", "B"}

\* createCard in a list, a list move, and an updateCard that is no list move.
ActionShapes ==
  {[type |-> "createCard", list |-> l, listBefore |-> Absent, listAfter |-> Absent] :
     l \in ListNames}
  \cup
  {[type |-> "updateCard", list |-> Absent, listBefore |-> mv[1],
    listAfter |-> mv[2]] :
     mv \in {m \in ListNames \X ListNames : m[1] # m[2]}}
  \cup
  {[type |-> "updateCard", list |-> Absent, listBefore |-> Absent,
    listAfter |-> Absent]}

\* Action dates are multiples of six hours, so that differences of a quarter
\* and of half a day occur.
TimeUnit == 6 * MsPerHour

ActionsAt(times) ==
  {[type |-> sh.type, list |-> sh.list, listBefore |-> sh.listBefore,
    listAfter |-> sh.listAfter, date |-> TimeUnit * t] :
     sh \in ActionShapes, t \in times}

\* Action lists as the Trello API returns them: newest first, and a
\* createCard action, when the card has one, is its oldest action.
NewestFirst(sq) == \A i \in 1..(Len(sq) - 1) : sq[i].date >= sq[i + 1].date

CreateIsOldest(sq) == \A i \in 1..(Len(sq) - 1) : sq[i].type # "createCard"

\* The functions take any array of actions, in any order.
ActionLists ==
  UNION {[1..n -> ActionsAt(1..MaxActionTime)] : n \in 0..MaxActions}

\* 24-character ids whose first 8 characters encode the seconds 0,
\* 0x5460 (six hours) and 0xA8C0 (twelve hours).
IdTail == <<"5", "f", "0", "0", "0", "0", "0", "0",
            "0", "0", "0", "0", "a", "b", "c", "d">>
CardIds ==
  {<<"0", "0", "0", "0", "0", "0", "0", "0">> \o IdTail,
   <<"0", "0", "0", "0", "5", "4", "6", "0">> \o IdTail,
   <<"0", "0", "0", "0", "A", "8", "C", "0">> \o IdTail}

ListIds == {ListIdOf(name) : name \in ListNames}

\* The report's settings name two different lists.
ListSettings ==
  {st \in [currentWork : ListIds, released : ListIds] :
     st.currentWork # st.released}

NoListSettings == [currentWork |-> "idA", released |-> "idB"]

InitHist ==
  /\ histActions \in ActionLists
  /\ histCardId \in CardIds
  /\ histOut = NotComputed
  /\ histPc = "ready"
  /\ histLists = NoListSettings
  /\ histMoves = <<>>
  /\ histDays = Null

IdleHist ==
  /\ histActions = <<>>
  /\ histCardId = <<"0", "0", "0", "0", "0", "0", "0", "0">> \o IdTail
  /\ histOut = NotComputed
  /\ histPc = "ready"
  /\ histLists = NoListSettings
  /\ histMoves = <<>>
  /\ histDays = Null

BuildCardHistory ==
  /\ histPc = "ready"
  /\ histOut' = buildCardHistory(histActions, histCardId)
  /\ histPc' = "done"
  /\ UNCHANGED <<histActions, histCardId, histLists, histMoves, histDays>>

\* The list report reads the same card: getDaysFromCurrentWorkToReleased and
\* the movements it works on.
GetDaysFromCurrentWorkToReleased ==
  /\ histPc = "done"
  /\ \E settings \in ListSettings :
       /\ histLists' = settings
       /\ histDays' = getDaysFromCurrentWorkToReleased(histActions, histCardId,
                         settings.currentWork, settings.released)
  /\ histMoves' = getListMovementsChronological(histActions, histCardId)
  /\ histPc' = "days"
  /\ UNCHANGED <<histActions, histCardId, histOut>>


(***************************************************************************)
(* List Report pipeline: src/list-report/list-report-api.js and            *)
(* src/list-report/list-report-report.js                                   *)
(*                                                                         *)
(* One run of an exported entry point: generateReport, aggregateCardData   *)
(* or fetchWithRetry.  A response is [ok, status]; a fetch that rejects    *)
(* (network failure) is the outcome Rejected.  A card is [idMembers].      *)
(***************************************************************************)

\* Bounds of the pipeline model.
MaxCards == 2
MaxRetriesArg == 2

\* fetchWithRetry = async (fetchFn, maxRetries = 3)
DefaultMaxRetries == 3

Members == {"m1", "m2"}

Responses ==
  {[ok |-> TRUE, status |-> 200],
   [ok |-> FALSE, status |-> 429],
   [ok |-> FALSE, status |-> 500]}

Rejected == [ok |-> FALSE, status |-> -1]

NoResponse == [ok |-> FALSE, status |-> 0]

FetchOutcomes == Responses \cup {Rejected}

\* The Retry-After header of a 429: absent, not a positive number, or "2".
NoHeader == -1
RetryAfterHints == {NoHeader, 0, 2}

RECURSIVE Pow2(_)
Pow2(n) == IF n = 0 THEN 1 ELSE 2 * Pow2(n - 1)

\* The wait before the next attempt (lines 99-108).
WaitTime(attempt, retryAfter) ==
  IF retryAfter # NoHeader
    THEN IF retryAfter > 0 THEN retryAfter * 1000 ELSE 5000
    ELSE Pow2(attempt) * 5000

\* The two requests of a card under Promise.all, each in its fetchWithRetry.
Slots == {"actions", "customFields"}

IdleFetch ==
  [maxRetries |-> DefaultMaxRetries, attempt |-> 0, calls |-> 0,
   phase |-> "idle", resp |-> NoResponse, err |-> "none", waitTime |-> 0]

StartFetch(maxRetries) ==
  [IdleFetch EXCEPT !.maxRetries = maxRetries, !.phase = "call"]

\* fetchWithRetry with the network rejection handled like a 429: a mutation.
fetchWithRetryRetryingRejections(f, out, retryAfter) ==
  IF out # Rejected /\ (out.ok \/ out.status # 429)
    THEN [f EXCEPT !.calls = @ + 1, !.phase = "returned", !.resp = out]
  ELSE IF f.attempt < f.maxRetries
    THEN [f EXCEPT !.calls = @ + 1, !.phase = "wait", !.resp = out,
                   !.waitTime = WaitTime(f.attempt, retryAfter)]
  ELSE [f EXCEPT !.calls = @ + 1, !.phase = "threw", !.resp = out,
                 !.err = "Failed to fetch"]

\* fetchWithRetry that returns a last 429 instead of throwing: a mutation.
fetchWithRetryReturningLast429(f, out, retryAfter) ==
  IF out = Rejected
    THEN [f EXCEPT !.calls = @ + 1, !.phase = "threw",
                   !.err = "Network error"]
  ELSE IF out.ok \/ out.status # 429 \/ f.attempt >= f.maxRetries
    THEN [f EXCEPT !.calls = @ + 1, !.phase = "returned", !.resp = out]
  ELSE [f EXCEPT !.calls = @ + 1, !.phase = "wait", !.resp = out,
                 !.waitTime = WaitTime(f.attempt, retryAfter)]

\* One iteration of the loop of fetchWithRetry, from the settling of
\* fetchFn() to the return, the throw or the start of the wait.
fetchWithRetry(f, out, retryAfter) ==
  IF out = Rejected
    THEN [f EXCEPT !.calls = @ + 1, !.phase = "threw",
                   !.err = "Network error"]
  ELSE IF out.ok \/ out.status # 429
    THEN [f EXCEPT !.calls = @ + 1, !.phase = "returned", !.resp = out]
  ELSE IF out.status = 429 /\ f.attempt < f.maxRetries
    THEN [f EXCEPT !.calls = @ + 1, !.phase = "wait", !.resp = out,
                   !.waitTime = WaitTime(f.attempt, retryAfter)]
  ELSE [f EXCEPT !.calls = @ + 1, !.phase = "threw", !.resp = out,
                 !.err = "Failed to fetch"]

\* A fetch of the report failed: it rejected, or its response is not ok.
FetchFailed(out) == out = Rejected \/ ~out.ok

\* The request whose fetchWithRetry is f failed.
RequestFailed(f) ==
  f.phase = "threw" \/ (f.phase = "returned" /\ FetchFailed(f.resp))

\* The card request without the test of response.ok: a mutation.
fetchCardRequestIgnoringStatus(f) ==
  IF f.phase = "threw" THEN "rejected"
  ELSE IF f.phase = "returned" THEN "fulfilled"
  ELSE "pending"

\* fetchCardActions / fetchCardCustomFields: the promise of the request
\* whose fetchWithRetry is f.
fetchCardRequest(f) ==
  IF f.phase = "threw" THEN "rejected"
  ELSE IF f.phase = "returned"
    THEN IF f.resp.ok THEN "fulfilled" ELSE "rejected"
  ELSE "pending"

\* The message of the error a rejected card request carries.
CardRequestError(s, f) ==
  IF f.phase = "threw" THEN f.err
  ELSE IF s = "actions" THEN "Failed to fetch card actions"
  ELSE "Failed to fetch custom fields"

\* fetchListCards, fetchBoardCustomFields, fetchMember: a plain fetch, no
\* retry; "ok" or the message of the error thrown.
plainFetch(out, what) ==
  IF out = Rejected THEN "Failed to fetch"
  ELSE IF ~out.ok THEN what
  ELSE "ok"

Cards == [idMembers : SUBSET Members]

CardLists == UNION {[1..n -> Cards] : n \in 0..MaxCards}

RECURSIVE AllMemberIds(_)
AllMemberIds(cards) ==
  IF cards = <<>> THEN {}
  ELSE cards[1].idMembers \cup AllMemberIds(Tail(cards))

NoError == [msg |-> "none", card |-> 0]

\* The name aggregateCardData keeps for a member (lines 110-118): the
\* fetched one, or `Member ${memberId}` when fetchMember throws.
memberName(out) ==
  IF plainFetch(out, "Failed to fetch member") = "ok"
    THEN "fullName" ELSE "placeholder"

\* window.ListReport.api.getQaListId at run time (called at line 526 of
\* list-report-report.js).  The api object of list-report-api.js under src
\* has no such member, so the call throws a TypeError; an api object that
\* carries the getter reads the saved QA list id from board storage, as
\* getReleasedListId does, and the run goes on.
QaGetterInSrc == "undefined"
QaGetterAsSpecified == "function"
QaGetters == {QaGetterInSrc, QaGetterAsSpecified}

InitReport ==
  /\ repEntry \in {"generateReport", "aggregateCardData", "fetchWithRetry"}
  /\ repQaGetter \in QaGetters
  /\ repSingle \in BOOLEAN
  /\ repIdx = 0
  /\ repNames = <<>>
  /\ repAlert = "none"
  /\ repError = NoError
  /\ repDownloads = 0
  /\ repFailed = {}
  /\ repResult = "pending"
  /\ repSettings = {}
  /\ repHeader = {}
  /\ \/ /\ repEntry = "generateReport"
        /\ repPc = "start"
        /\ repCards = <<>>
        /\ repFetch = [s \in Slots |-> IdleFetch]
     \/ /\ repEntry = "aggregateCardData"
        /\ repPc = "boardFields"
        /\ repCards \in CardLists
        /\ repFetch = [s \in Slots |-> IdleFetch]
        /\ repQaGetter = QaGetterInSrc
     \/ /\ repEntry = "fetchWithRetry"
        /\ repPc = "fetchWithRetry"
        /\ repCards = <<>>
        /\ \E m \in 0..MaxRetriesArg :
             repFetch = [s \in Slots |->
                           IF s = "actions" THEN StartFetch(m) ELSE IdleFetch]
        /\ repQaGetter = QaGetterInSrc
        /\ repSingle = FALSE

IdleReport ==
  /\ repEntry = "none"
  /\ repPc = "idle"
  /\ repQaGetter = QaGetterInSrc
  /\ repSingle = FALSE
  /\ repCards = <<>>
  /\ repIdx = 0
  /\ repFetch = [s \in Slots |-> IdleFetch]
  /\ repNames = <<>>
  /\ repAlert = "none"
  /\ repError = NoError
  /\ repDownloads = 0
  /\ repFailed = {}
  /\ repResult = "pending"
  /\ repSettings = {}
  /\ repHeader = {}

\* A throw inside aggregateCardData or generateReport: the catch of
\* generateReport (lines 557-573) shows the error alert; a direct call of
\* aggregateCardData rejects.
Throw(msg, card) ==
  /\ repError' = [msg |-> msg, card |-> card]
  /\ repPc' = "done"
  /\ repAlert' = IF repEntry = "generateReport" THEN "error" ELSE repAlert
  /\ repResult' = IF repEntry = "aggregateCardData" THEN "rejected"
                  ELSE repResult

\* The fetches of card i start: Promise.all of the two requests.
StartCard(i) ==
  /\ repIdx' = i
  /\ repFetch' = [s \in Slots |-> StartFetch(DefaultMaxRetries)]

\* generateReport, lines 497-512: token, board context, the info alert.
StartGenerateReport ==
  /\ repPc = "start"
  /\ \E token \in {"token", "null"}, boardId \in {"board", "undefined"} :
       IF token = "null"
         THEN /\ repAlert' = "authorize"
              /\ repPc' = "done"
              /\ UNCHANGED <<repError, repResult>>
       ELSE IF boardId = "undefined"
         THEN Throw("Could not get board context", 0)
       ELSE /\ repAlert' = "info"
            /\ repPc' = "listCards"
            /\ UNCHANGED <<repError, repResult>>
  /\ UNCHANGED <<repSettings, repHeader>>
  /\ UNCHANGED <<repEntry, repQaGetter, repSingle, repCards, repIdx, repFetch,
                 repNames, repDownloads, repFailed>>

\* generateReport, lines 514-522: api.fetchListCards and the empty list.
FetchListCards ==
  /\ repPc = "listCards"
  /\ \E out \in FetchOutcomes, cards \in CardLists :
       LET r == plainFetch(out, "Failed to fetch cards")
       IN /\ IF r # "ok"
               THEN /\ Throw(r, 0)
                    /\ UNCHANGED repCards
             ELSE IF Len(cards) = 0
               THEN /\ repAlert' = "warning"
                    /\ repPc' = "done"
                    /\ UNCHANGED <<repError, repResult, repCards>>
             ELSE /\ repCards' = cards
                  /\ repPc' = "listIds"
                  /\ UNCHANGED <<repError, repResult, repAlert>>
          /\ repFailed' = IF FetchFailed(out)
                            THEN repFailed \cup {"listCards"} ELSE repFailed
  /\ UNCHANGED <<repSettings, repHeader>>
  /\ UNCHANGED <<repEntry, repQaGetter, repSingle, repIdx, repFetch, repNames,
                 repDownloads>>

ListIdKeys == {"currentWorkListId", "releasedListId", "qaListId"}

\* hasCycleTimeColumn and hasQaColumn (lines 82-83) and the columns they add
\* to the header (lines 341-346).
OptionalColumns(listIds) ==
  (IF "currentWorkListId" \in listIds /\ "releasedListId" \in listIds
     THEN {"Avg days"} ELSE {})
  \cup (IF "qaListId" \in listIds THEN {"Avg QA times"} ELSE {})

\* generateReport, lines 524-531: the three configured list ids.  The two
\* getters of list-report-api.js read board storage before getQaListId is
\* called.
GetListIds ==
  /\ repPc = "listIds"
  /\ IF repQaGetter = QaGetterInSrc
       THEN /\ Throw("TypeError", 0)
            /\ \E stored \in SUBSET {"currentWorkListId", "releasedListId"} :
                 repSettings' = stored
       ELSE /\ repPc' = "boardFields"
            /\ \E stored \in SUBSET ListIdKeys : repSettings' = stored
            /\ UNCHANGED <<repError, repAlert, repResult>>
  /\ UNCHANGED repHeader
  /\ UNCHANGED <<repEntry, repQaGetter, repSingle, repCards, repIdx, repFetch,
                 repNames, repDownloads, repFailed>>

\* aggregateCardData, lines 88-103: api.fetchBoardCustomFields, then the
\* card data fetch starts with the first card.
FetchBoardCustomFields ==
  /\ repPc = "boardFields"
  /\ \E out \in FetchOutcomes :
       LET r == plainFetch(out, "Failed to fetch custom field definitions")
       IN /\ IF r # "ok"
               THEN /\ Throw(r, 0)
                    /\ UNCHANGED <<repIdx, repFetch>>
             ELSE IF Len(repCards) = 0
               THEN /\ repPc' = "members"
                    /\ UNCHANGED <<repError, repAlert, repResult, repIdx,
                                   repFetch>>
             ELSE /\ StartCard(1)
                  /\ repPc' = "cards"
                  /\ UNCHANGED <<repError, repAlert, repResult>>
          /\ repFailed' = IF FetchFailed(out)
                            THEN repFailed \cup {"boardFields"} ELSE repFailed
  /\ UNCHANGED <<repSettings, repHeader>>
  /\ UNCHANGED <<repEntry, repQaGetter, repSingle, repCards, repNames,
                 repDownloads>>

\* fetchCardDataBatched wraps the error of a card with the card (lines
\* 230-237); fetchCardDataSingleCard lets it through.
CardOfError(i) == IF repSingle THEN 0 ELSE i

\* fetchFn() of slot s settles and the loop of fetchWithRetry runs on to its
\* next await.  Inside the card data fetch the settled request settles
\* Promise.all: a rejection leaves fetchCardData*, aggregateCardData and
\* generateReport's try at once; the second fulfilment completes the card.
FetchFnSettles(s) ==
  /\ repFetch[s].phase = "call"
  /\ \E out \in FetchOutcomes, retryAfter \in RetryAfterHints :
       LET f == fetchWithRetry(repFetch[s], out, retryAfter)
           fetches == [repFetch EXCEPT ![s] = f]
       IN /\ repFetch' = fetches
          /\ IF repPc = "cards" /\ fetchCardRequest(f) = "rejected"
               THEN Throw(CardRequestError(s, f), CardOfError(repIdx))
             ELSE IF repPc = "cards"
                     /\ \A x \in Slots : fetchCardRequest(fetches[x]) = "fulfilled"
               THEN /\ repPc' = "cardFetched"
                    /\ UNCHANGED <<repError, repAlert, repResult>>
             ELSE UNCHANGED <<repPc, repError, repAlert, repResult>>
          /\ repFailed' = IF repPc = "cards" /\ RequestFailed(f)
                            THEN repFailed \cup {s} ELSE repFailed
  /\ UNCHANGED <<repSettings, repHeader>>
  /\ UNCHANGED <<repEntry, repQaGetter, repSingle, repCards, repIdx, repNames,
                 repDownloads>>

\* The wait of fetchWithRetry ends (line 113): continue with attempt + 1;
\* response and waitTime are variables of the iteration that ended.
BackoffElapses(s) ==
  /\ repFetch[s].phase = "wait"
  /\ repFetch' = [repFetch EXCEPT ![s].attempt = @ + 1, ![s].phase = "call",
                                  ![s].resp = NoResponse, ![s].waitTime = 0]
  /\ UNCHANGED <<repSettings, repHeader>>
  /\ UNCHANGED <<repEntry, repPc, repQaGetter, repSingle, repCards, repIdx,
                 repNames, repAlert, repError, repDownloads, repFailed,
                 repResult>>

\* The result of the card is pushed; after the delay the next card starts,
\* or the card data fetch returns (lines 229-256, 277-286).
NextCard ==
  /\ repPc = "cardFetched"
  /\ IF repIdx < Len(repCards)
       THEN /\ StartCard(repIdx + 1)
            /\ repPc' = "cards"
       ELSE /\ repPc' = "members"
            /\ UNCHANGED <<repIdx, repFetch>>
  /\ UNCHANGED <<repSettings, repHeader>>
  /\ UNCHANGED <<repEntry, repQaGetter, repSingle, repCards, repNames,
                 repAlert, repError, repDownloads, repFailed, repResult>>

\* aggregateCardData, lines 105-123: every member id of the cards is looked
\* up; a lookup that throws is caught and gives the placeholder name.
FetchMembers ==
  /\ repPc = "members"
  /\ \E outs \in [AllMemberIds(repCards) -> FetchOutcomes] :
       /\ repNames' = [m \in AllMemberIds(repCards) |-> memberName(outs[m])]
       /\ repFailed' = IF \E m \in AllMemberIds(repCards) : FetchFailed(outs[m])
                         THEN repFailed \cup {"member"} ELSE repFailed
  /\ repPc' = "aggregate"
  /\ UNCHANGED <<repSettings, repHeader>>
  /\ UNCHANGED <<repEntry, repQaGetter, repSingle, repCards, repIdx, repFetch,
                 repAlert, repError, repDownloads, repResult>>

\* The counting loop runs and aggregateCardData returns (lines 125-288);
\* generateReport then builds the CSV, calls downloadCSV and shows the
\* success alert (lines 541-556).
FinishReport ==
  /\ repPc = "aggregate"
  /\ repPc' = "done"
  /\ IF repEntry = "generateReport"
       THEN /\ repDownloads' = repDownloads + 1
            /\ repHeader' = OptionalColumns(repSettings)
            /\ repAlert' = "success"
            /\ UNCHANGED repResult
       ELSE /\ repResult' = "returned"
            /\ UNCHANGED <<repDownloads, repAlert, repHeader>>
  /\ UNCHANGED repSettings
  /\ UNCHANGED <<repEntry, repQaGetter, repSingle, repCards, repIdx, repFetch,
                 repNames, repError, repFailed>>


(***************************************************************************)
(* Member aggregation and CSV totals:                                      *)
(* src/list-report/list-report-report.js                                   *)
(*                                                                         *)
(* A fetched card is [idMembers, size, days, due, completion]: the member  *)
(* ids in the order of card.idMembers, the values getCustomFieldValue      *)
(* finds for the Size and Days to Release fields, card.due and the date of *)
(* getCardCompletionDate.  No list ids are configured (listIds = {}), so   *)
(* the report has no cycle-time and no QA column.                          *)
(***************************************************************************)

\* null, undefined and "": the values that are false in a condition.
NoValue == ""
\* A date that is null.
NoDate == 0

Truthy(v) == v # NoValue

\* obj[k] || 0
GetOr0(obj, k) == IF k \in DOMAIN obj THEN obj[k] ELSE 0

\* obj[k] = v
Put(obj, k, v) == [x \in DOMAIN obj \cup {k} |-> IF x = k THEN v ELSE obj[x]]

\* obj[k] = (obj[k] || 0) + 1
Incr(obj, k) == Put(obj, k, GetOr0(obj, k) + 1)

\* {}
EmptyObject == [x \in {} |-> 0]

NewMemberData ==
  [sizes |-> EmptyObject, daysToRelease |-> EmptyObject,
   onTime |-> 0, pastDue |-> 0, total |-> 0]

\* incrementMemberCounts without the "No Size" bucket.
incrementMemberCountsWithoutNoSize(memberData, memberId, sizeValue, daysToReleaseValue, isOnTime, isPastDue, sizeField, daysToReleaseField) ==
  LET d0 == memberData[memberId]
      d1 == [d0 EXCEPT !.total = @ + 1]
      d2 == IF Truthy(sizeValue)
              THEN [d1 EXCEPT !.sizes = Incr(@, sizeValue)]
            ELSE d1
      d3 == IF Truthy(daysToReleaseValue)
              THEN [d2 EXCEPT !.daysToRelease = Incr(@, daysToReleaseValue)]
            ELSE IF daysToReleaseField
              THEN [d2 EXCEPT !.daysToRelease = Incr(@, "No Days to Release")]
            ELSE d2
      d4 == IF isOnTime = "true" THEN [d3 EXCEPT !.onTime = @ + 1] ELSE d3
      d5 == IF isPastDue = "true" THEN [d4 EXCEPT !.pastDue = @ + 1] ELSE d4
  IN [memberData EXCEPT ![memberId] = d5]

incrementMemberCounts(memberData, memberId, sizeValue, daysToReleaseValue, isOnTime, isPastDue, sizeField, daysToReleaseField) ==
  LET d0 == memberData[memberId]
      d1 == [d0 EXCEPT !.total = @ + 1]
      d2 == IF Truthy(sizeValue)
              THEN [d1 EXCEPT !.sizes = Incr(@, sizeValue)]
            ELSE IF sizeField
              THEN [d1 EXCEPT !.sizes = Incr(@, "No Size")]
            ELSE d1
      d3 == IF Truthy(daysToReleaseValue)
              THEN [d2 EXCEPT !.daysToRelease = Incr(@, daysToReleaseValue)]
            ELSE IF daysToReleaseField
              THEN [d2 EXCEPT !.daysToRelease = Incr(@, "No Days to Release")]
            ELSE d2
      d4 == IF isOnTime = "true" THEN [d3 EXCEPT !.onTime = @ + 1] ELSE d3
      d5 == IF isPastDue = "true" THEN [d4 EXCEPT !.pastDue = @ + 1] ELSE d4
  IN [memberData EXCEPT ![memberId] = d5]

\* if (!memberData[id]) memberData[id] = {...}
EnsureMember(memberData, id) ==
  IF id \in DOMAIN memberData THEN memberData
  ELSE Put(memberData, id, NewMemberData)

\* isOnTime / isPastDue of a card (lines 149-155).
IsOnTime(card) ==
  IF card.due # NoDate /\ card.completion # NoDate
    THEN IF card.completion <= card.due THEN "true" ELSE "false"
    ELSE "null"

IsPastDue(card) ==
  IF card.due # NoDate /\ card.completion # NoDate
    THEN IF card.completion > card.due THEN "true" ELSE "false"
    ELSE "null"

SizeValue(card, sizeField) == IF sizeField THEN card.size ELSE NoValue

DaysToReleaseValue(card, daysToReleaseField) ==
  IF daysToReleaseField THEN card.days ELSE NoValue

\* The loop over the members of a card that counts the card for its first
\* member only: a mutation.
CountForMembersFirstOnly(memberData, memberIds, card, sizeField, daysToReleaseField) ==
  incrementMemberCounts(EnsureMember(memberData, memberIds[1]), memberIds[1],
                        SizeValue(card, sizeField),
                        DaysToReleaseValue(card, daysToReleaseField),
                        IsOnTime(card), IsPastDue(card),
                        sizeField, daysToReleaseField)

\* for (const memberId of memberIds) { ... } (lines 181-203)
RECURSIVE CountForMembers(_, _, _, _, _)
CountForMembers(memberData, memberIds, card, sizeField, daysToReleaseField) ==
  IF memberIds = <<>> THEN memberData
  ELSE CountForMembers(
         incrementMemberCounts(EnsureMember(memberData, memberIds[1]),
                               memberIds[1],
                               SizeValue(card, sizeField),
                               DaysToReleaseValue(card, daysToReleaseField),
                               IsOnTime(card), IsPastDue(card),
                               sizeField, daysToReleaseField),
         Tail(memberIds), card, sizeField, daysToReleaseField)

\* One iteration of the loop over the cards: memberData (lines 149-204).
CountCard(memberData, card, sizeField, daysToReleaseField) ==
  IF Len(card.idMembers) = 0
    THEN incrementMemberCounts(EnsureMember(memberData, "unassigned"),
                               "unassigned",
                               SizeValue(card, sizeField),
                               DaysToReleaseValue(card, daysToReleaseField),
                               IsOnTime(card), IsPastDue(card),
                               sizeField, daysToReleaseField)
    ELSE CountForMembers(memberData, card.idMembers, card, sizeField,
                         daysToReleaseField)

RECURSIVE CountCards(_, _, _, _)
CountCards(memberData, cards, sizeField, daysToReleaseField) ==
  IF cards = <<>> THEN memberData
  ELSE CountCards(CountCard(memberData, cards[1], sizeField,
                            daysToReleaseField),
                  Tail(cards), sizeField, daysToReleaseField)

\* uniqueSizes and uniqueDaysToRelease (lines 138-147).
UniqueSizes(cards, sizeField) ==
  {SizeValue(cards[i], sizeField) :
     i \in {j \in DOMAIN cards : Truthy(SizeValue(cards[j], sizeField))}}
  \cup (IF sizeField /\ \E i \in DOMAIN cards : ~Truthy(cards[i].size)
          THEN {"No Size"} ELSE {})

UniqueDaysToRelease(cards, daysToReleaseField) ==
  {DaysToReleaseValue(cards[i], daysToReleaseField) :
     i \in {j \in DOMAIN cards :
              Truthy(DaysToReleaseValue(cards[j], daysToReleaseField))}}
  \cup (IF daysToReleaseField /\ \E i \in DOMAIN cards : ~Truthy(cards[i].days)
          THEN {"No Days to Release"} ELSE {})

\* The strings of the model in the order of localeCompare.
Collation == <<"3", "Al", "L", "m1", "m2", "S", "Zoe">>

CollationRank(str) == CHOOSE i \in 1..Len(Collation) : Collation[i] = str

\* Array.from(set).sort(...) with the comparator that puts `last` at the end
\* and compares the keys of the others with localeCompare.
RECURSIVE SortLast(_, _, _)
SortLast(S, key, last) ==
  IF S = {} THEN <<>>
  ELSE LET rank(x) == IF x = last THEN Len(Collation) + 1
                      ELSE CollationRank(key[x])
           first == CHOOSE x \in S : \A y \in S : rank(x) <= rank(y)
       IN <<first>> \o SortLast(S \ {first}, key, last)

Identity(S) == [x \in S |-> x]

\* The names of the members as resolved by fetchMember.
MemberNames == [m \in Members |-> IF m = "m1" THEN "Zoe" ELSE "Al"]

\* The result of aggregateCardData (lines 125-288).
aggregateCardData(cards, sizeField, daysToReleaseField) ==
  [memberData |-> CountCards(EmptyObject, cards, sizeField, daysToReleaseField),
   memberNames |-> [m \in AllMemberIds([i \in DOMAIN cards |->
                       [idMembers |-> {cards[i].idMembers[j] :
                                         j \in DOMAIN cards[i].idMembers}]])
                    |-> MemberNames[m]],
   uniqueSizes |->
     LET S == UniqueSizes(cards, sizeField)
     IN SortLast(S, Identity(S), "No Size"),
   uniqueDaysToRelease |->
     LET S == UniqueDaysToRelease(cards, daysToReleaseField)
     IN SortLast(S, Identity(S), "No Days to Release")]

\* The header of the CSV (lines 329-346): a cell is the sequence of the
\* strings it is built from.
Header(uniqueSizes, uniqueDaysToRelease) ==
  <<(<<"Member">>)>>
  \o [i \in DOMAIN uniqueSizes |->
        IF uniqueSizes[i] = "No Size" THEN <<"No Size">>
        ELSE <<"Size ", uniqueSizes[i]>>]
  \o [i \in DOMAIN uniqueDaysToRelease |->
        IF uniqueDaysToRelease[i] = "No Days to Release"
          THEN <<"No Days to Release">>
        ELSE <<"Days to Release ", uniqueDaysToRelease[i]>>]
  \o << <<"On Time">>, <<"Past Due">>, <<"Total Cards">> >>

\* The row of a member (lines 373-394).  A count cell is the number itself:
\* escapeCSV turns it into its decimal numeral, which needs no quoting.
MemberRow(aggregatedData, memberId) ==
  LET data == aggregatedData.memberData[memberId]
      names == aggregatedData.memberNames
  IN [name |-> IF memberId = "unassigned" THEN "Unassigned"
               ELSE IF memberId \in DOMAIN names THEN names[memberId]
               ELSE memberId,
      cells |->
        [i \in DOMAIN aggregatedData.uniqueSizes |->
           GetOr0(data.sizes, aggregatedData.uniqueSizes[i])]
        \o [i \in DOMAIN aggregatedData.uniqueDaysToRelease |->
              GetOr0(data.daysToRelease,
                     aggregatedData.uniqueDaysToRelease[i])]
        \o <<data.onTime, data.pastDue, data.total>>]

\* The totals after the row of one member (lines 380-389, 418-420).
AddToTotals(totals, data) ==
  [sizes |-> [s \in DOMAIN totals.sizes |->
                totals.sizes[s] + GetOr0(data.sizes, s)],
   daysToRelease |-> [d \in DOMAIN totals.daysToRelease |->
                totals.daysToRelease[d] + GetOr0(data.daysToRelease, d)],
   onTime |-> totals.onTime + data.onTime,
   pastDue |-> totals.pastDue + data.pastDue,
   total |-> totals.total + data.total]

\* for (const memberId of memberIds) { ... } (lines 372-422): the totals.
RECURSIVE TotalsLoop(_, _, _)
TotalsLoop(totals, memberIds, memberData) ==
  IF memberIds = <<>> THEN totals
  ELSE TotalsLoop(AddToTotals(totals, memberData[memberIds[1]]),
                  Tail(memberIds), memberData)

generateCSV(aggregatedData) ==
  LET memberData == aggregatedData.memberData
      names == aggregatedData.memberNames
      sizes == aggregatedData.uniqueSizes
      days == aggregatedData.uniqueDaysToRelease
      memberIds ==
        SortLast(DOMAIN memberData,
                 [id \in DOMAIN memberData |->
                    IF id \in DOMAIN names THEN names[id] ELSE id],
                 "unassigned")
      totals ==
        TotalsLoop([sizes |-> [s \in {sizes[i] : i \in DOMAIN sizes} |-> 0],
                    daysToRelease |->
                      [d \in {days[i] : i \in DOMAIN days} |-> 0],
                    onTime |-> 0, pastDue |-> 0, total |-> 0],
                   memberIds, memberData)
  IN [header |-> Header(sizes, days),
      rows |-> [i \in DOMAIN memberIds |->
                  MemberRow(aggregatedData, memberIds[i])],
      totalsRow |->
        [name |-> "TOTALS",
         cells |-> [i \in DOMAIN sizes |-> totals.sizes[sizes[i]]]
                   \o [i \in DOMAIN days |-> totals.daysToRelease[days[i]]]
                   \o <<totals.onTime, totals.pastDue, totals.total>>]]

\* The cards of the checked lists.
AggMemberLists == {<<>>, <<"m1">>, <<"m1", "m2">>}

AggDates == {<<2, NoDate>>, <<2, 2>>, <<2, 3>>}

\* A card has a value only for a custom field the board defines.
AggCards(sizeField, daysToReleaseField) ==
  {[idMembers |-> m, size |-> s, days |-> d, due |-> t[1],
    completion |-> t[2]] :
     m \in AggMemberLists,
     s \in IF sizeField THEN {"S", "L", NoValue} ELSE {NoValue},
     d \in IF daysToReleaseField THEN {"3", NoValue} ELSE {NoValue},
     t \in AggDates}

AggCardLists(sizeField, daysToReleaseField) ==
  UNION {[1..n -> AggCards(sizeField, daysToReleaseField)] : n \in 0..MaxCards}

InitAgg ==
  /\ aggSizeField \in BOOLEAN
  /\ aggDaysField \in BOOLEAN
  /\ aggCards \in AggCardLists(aggSizeField, aggDaysField)
  /\ aggData = NotComputed
  /\ aggCsv = NotComputed
  /\ aggPc = "ready"

IdleAgg ==
  /\ aggCards = <<>>
  /\ aggSizeField = FALSE
  /\ aggDaysField = FALSE
  /\ aggData = NotComputed
  /\ aggCsv = NotComputed
  /\ aggPc = "ready"

AggregateCardData ==
  /\ aggPc = "ready"
  /\ aggData' = aggregateCardData(aggCards, aggSizeField, aggDaysField)
  /\ aggPc' = "aggregated"
  /\ UNCHANGED <<aggCards, aggSizeField, aggDaysField, aggCsv>>

GenerateCSV ==
  /\ aggPc = "aggregated"
  /\ aggCsv' = generateCSV(aggData)
  /\ aggPc' = "done"
  /\ UNCHANGED <<aggCards, aggSizeField, aggDaysField, aggData>>

(***************************************************************************)
(* On Time / Past Due of one card: getCardCompletionDate of                *)
(* src/list-report/list-report-helpers.js and the counting loop of         *)
(* aggregateCardData.  An action of the log is [type, dueComplete, old,    *)
(* date]: dueComplete is data.card.dueComplete, old is data.old.dueComplete *)
(* or "null" when data.old is null; a field an action does not carry is    *)
(* Absent.  Every action of the model has data, data.card and a date.      *)
(***************************************************************************)

\* getCardCompletionDate that takes every action with dueComplete true for a
\* completion, whatever data.old says.
getCardCompletionDateIgnoringOld(actions, cardId) ==
  LET found == {i \in 1..Len(actions) :
                  /\ actions[i].type = "updateCard"
                  /\ actions[i].dueComplete = "true"}
  IN  IF found = {} THEN Null
      ELSE LET completionAction == actions[CHOOSE i \in found : \A j \in found : i <= j]
           IN  IF completionAction.date = NoDate THEN Null
               ELSE completionAction.date

\* actions.find(...) returns the first action of the array that matches.
getCardCompletionDate(actions, cardId) ==
  LET found == {i \in 1..Len(actions) :
                  /\ actions[i].type = "updateCard"
                  /\ actions[i].dueComplete = "true"
                  /\ (actions[i].old = "null" \/ actions[i].old # "true")}
  IN  IF found = {} THEN Null
      ELSE LET completionAction == actions[CHOOSE i \in found : \A j \in found : i <= j]
           IN  IF completionAction.date = NoDate THEN Null
               ELSE completionAction.date

\* The card as the counting loop reads it (lines 125-155).
DueCardData(card, completionDate) ==
  [idMembers |-> card.idMembers, size |-> NoValue, days |-> NoValue,
   due |-> card.due,
   completion |-> IF completionDate = Null THEN NoDate ELSE completionDate]

\* Marking the due date complete, unmarking it, an update that repeats
\* dueComplete true, a completion whose data.old is null, and an update of
\* another field.
DueShapes ==
  {[type |-> "updateCard", dueComplete |-> "true", old |-> "false"],
   [type |-> "updateCard", dueComplete |-> "false", old |-> "true"],
   [type |-> "updateCard", dueComplete |-> "true", old |-> "true"],
   [type |-> "updateCard", dueComplete |-> "true", old |-> "null"],
   [type |-> "updateCard", dueComplete |-> Absent, old |-> Absent]}

DueActionsAt(times) ==
  {[type |-> sh.type, dueComplete |-> sh.dueComplete, old |-> sh.old,
    date |-> TimeUnit * t] : sh \in DueShapes, t \in times}

\* The logs as fetchCardActions returns them: newest first.
DueLogs ==
  UNION {{sq \in [1..n -> DueActionsAt(1..MaxActionTime)] : NewestFirst(sq)} :
           n \in 0..MaxActions}

DueCards ==
  {[idMembers |-> m, due |-> d] :
     m \in AggMemberLists, d \in {NoDate, 2 * TimeUnit}}

InitDue ==
  /\ dueActions \in DueLogs
  /\ dueCard \in DueCards
  /\ dueCompletion = Null
  /\ dueData = EmptyObject
  /\ duePc = "ready"

IdleDue ==
  /\ dueActions = <<>>
  /\ dueCard = [idMembers |-> <<>>, due |-> NoDate]
  /\ dueCompletion = Null
  /\ dueData = EmptyObject
  /\ duePc = "ready"

GetCardCompletionDate ==
  /\ duePc = "ready"
  /\ dueCompletion' = getCardCompletionDate(dueActions, dueCard)
  /\ duePc' = "completion"
  /\ UNCHANGED <<dueActions, dueCard, dueData>>

\* The rest of the iteration of the loop over the cards.
CountDueCard ==
  /\ duePc = "completion"
  /\ dueData' = CountCard(EmptyObject, DueCardData(dueCard, dueCompletion),
                          FALSE, FALSE)
  /\ duePc' = "done"
  /\ UNCHANGED <<dueActions, dueCard, dueCompletion>>

(***************************************************************************)
(* formatBusinessTime of src/time-in-list/power-up.js.  The result is the  *)
(* string itself; a number in a template literal becomes its decimal       *)
(* numeral.                                                                *)
(***************************************************************************)

Digits == <<"0", "1", "2", "3", "4", "5", "6", "7", "8", "9">>

\* String(n) of a non-negative integer.
RECURSIVE NumberToString(_)
NumberToString(n) ==
  IF n < 10 THEN Digits[n + 1]
  ELSE NumberToString(n \div 10) \o Digits[(n % 10) + 1]

\* formatBusinessTime with the week tier before the month tier.
formatBusinessTimeWeeksFirst(totalMinutes) ==
  IF totalMinutes < 1 THEN "Less than a minute"
  ELSE
    LET days == totalMinutes \div (60 * 24)
        hours == (totalMinutes % (60 * 24)) \div 60
        minutes == totalMinutes % 60
    IN  IF days >= 7
        THEN LET weeks == days \div 7
             IN  IF weeks = 1 THEN "1 week" ELSE NumberToString(weeks) \o " weeks"
        ELSE IF days > 0
        THEN IF hours = 0 /\ minutes = 0
             THEN IF days = 1 THEN "1 day" ELSE NumberToString(days) \o " days"
             ELSE LET result == IF days = 1 THEN "1 day"
                                ELSE NumberToString(days) \o " days"
                  IN  IF hours > 0 THEN result \o " " \o NumberToString(hours) \o "h"
                      ELSE result
        ELSE IF hours > 0
        THEN IF minutes = 0
             THEN IF hours = 1 THEN "1 hour" ELSE NumberToString(hours) \o " hours"
             ELSE NumberToString(hours) \o "h " \o NumberToString(minutes) \o "m"
        ELSE IF minutes = 1 THEN "1 minute" ELSE NumberToString(minutes) \o " minutes"

\* formatBusinessTime without the week tier: days up to the month tier.
formatBusinessTimeWithoutWeeks(totalMinutes) ==
  IF totalMinutes < 1 THEN "Less than a minute"
  ELSE
    LET days == totalMinutes \div (60 * 24)
        hours == (totalMinutes % (60 * 24)) \div 60
        minutes == totalMinutes % 60
    IN  IF days >= 30
        THEN LET months == days \div 30
             IN  IF months = 1 THEN "1 month"
                 ELSE NumberToString(months) \o " months"
        ELSE IF days > 0
        THEN IF hours = 0 /\ minutes = 0
             THEN IF days = 1 THEN "1 day" ELSE NumberToString(days) \o " days"
             ELSE LET result == IF days = 1 THEN "1 day"
                                ELSE NumberToString(days) \o " days"
                  IN  IF hours > 0
                      THEN result \o " " \o NumberToString(hours) \o "h"
                      ELSE result
        ELSE IF hours > 0
        THEN IF minutes = 0
             THEN IF hours = 1 THEN "1 hour"
                  ELSE NumberToString(hours) \o " hours"
             ELSE NumberToString(hours) \o "h " \o NumberToString(minutes) \o "m"
        ELSE IF minutes = 1 THEN "1 minute"
             ELSE NumberToString(minutes) \o " minutes"

formatBusinessTime(totalMinutes) ==
  IF totalMinutes < 1 THEN "Less than a minute"
  ELSE
    LET days == totalMinutes \div (60 * 24)
        hours == (totalMinutes % (60 * 24)) \div 60
        minutes == totalMinutes % 60
    IN  IF days >= 30
        THEN LET months == days \div 30
             IN  IF months = 1 THEN "1 month" ELSE NumberToString(months) \o " months"
        ELSE IF days >= 7
        THEN LET weeks == days \div 7
             IN  IF weeks = 1 THEN "1 week" ELSE NumberToString(weeks) \o " weeks"
        ELSE IF days > 0
        THEN IF hours = 0 /\ minutes = 0
             THEN IF days = 1 THEN "1 day" ELSE NumberToString(days) \o " days"
             ELSE LET result == IF days = 1 THEN "1 day"
                                ELSE NumberToString(days) \o " days"
                  IN  IF hours > 0 THEN result \o " " \o NumberToString(hours) \o "h"
                      ELSE result
        ELSE IF hours > 0
        THEN IF minutes = 0
             THEN IF hours = 1 THEN "1 hour" ELSE NumberToString(hours) \o " hours"
             ELSE NumberToString(hours) \o "h " \o NumberToString(minutes) \o "m"
        ELSE IF minutes = 1 THEN "1 minute" ELSE NumberToString(minutes) \o " minutes"

\* Bound of the input: up to sixty-two days and a half, so that "2 months"
\* occurs.
FmtMaxMinutes == 90000

InitFmt ==
  /\ fmtMinutes \in 0..FmtMaxMinutes
  /\ fmtOut = NotComputed
  /\ fmtPc = "ready"

IdleFmt ==
  /\ fmtMinutes = 0
  /\ fmtOut = NotComputed
  /\ fmtPc = "ready"

FormatBusinessTime ==
  /\ fmtPc = "ready"
  /\ fmtOut' = formatBusinessTime(fmtMinutes)
  /\ fmtPc' = "done"
  /\ UNCHANGED fmtMinutes

(***************************************************************************)
(* escapeCSV of src/list-report/list-report-report.js.  A string is the    *)
(* sequence of its characters.                                             *)
(***************************************************************************)

Includes(stringValue, ch) == \E i \in 1..Len(stringValue) : stringValue[i] = ch

\* stringValue.replace(/"/g, '""')
RECURSIVE DoubleQuotes(_)
DoubleQuotes(stringValue) ==
  IF stringValue = <<>> THEN <<>>
  ELSE (IF Head(stringValue) = "\"" THEN <<"\"", "\"">>
        ELSE <<Head(stringValue)>>) \o DoubleQuotes(Tail(stringValue))

\* escapeCSV that wraps the string and leaves its quotes single.
escapeCSVWithoutDoubling(value) ==
  IF value.kind \in {"null", "undefined"} THEN <<>>
  ELSE LET stringValue == value.chars
       IN  IF Includes(stringValue, ",") \/ Includes(stringValue, "\"")
              \/ Includes(stringValue, "\n")
           THEN <<"\"">> \o stringValue \o <<"\"">>
           ELSE stringValue

escapeCSV(value) ==
  IF value.kind \in {"null", "undefined"} THEN <<>>
  ELSE LET stringValue == value.chars
       IN  IF Includes(stringValue, ",") \/ Includes(stringValue, "\"")
              \/ Includes(stringValue, "\n")
           THEN <<"\"">> \o DoubleQuotes(stringValue) \o <<"\"">>
           ELSE stringValue

\* Bound of the input: strings of up to MaxFieldLen characters over an
\* ordinary character, comma, double quote and newline.
MaxFieldLen == 4
FieldChars == {"a", ",", "\"", "\n"}
FieldValues ==
  {[kind |-> "null", chars |-> <<>>], [kind |-> "undefined", chars |-> <<>>]}
  \cup {[kind |-> "string", chars |-> c] :
          c \in UNION {[1..n -> FieldChars] : n \in 0..MaxFieldLen}}

InitCsv ==
  /\ csvValue \in FieldValues
  /\ csvOut = <<>>
  /\ csvPc = "ready"

IdleCsv ==
  /\ csvValue = [kind |-> "null", chars |-> <<>>]
  /\ csvOut = <<>>
  /\ csvPc = "ready"

EscapeCSV ==
  /\ csvPc = "ready"
  /\ csvOut' = escapeCSV(csvValue)
  /\ csvPc' = "done"
  /\ UNCHANGED csvValue

(***************************************************************************)
(* calculateCurrentListTime: src/time-in-list/power-up.js, lines 331-425   *)
(***************************************************************************)

InvalidDate == [day |-> NaN, ms |-> NaN]

\* A null timestamp: an empty history, an event that has no resumedAt.
NullInstant == [day |-> NoTime, ms |-> NoTime]

\* getCardCreationDate, lines 18-21, as the Date it returns: new Date of
\* timestamp * 1000 split into day and time of day (the product itself does
\* not fit the integers of the model for a date of 2025).
CardCreationDate(cardId) ==
  LET timestamp == parseInt16(Substring08(cardId))
  IN  IF timestamp = NaN THEN InvalidDate
      ELSE [day |-> timestamp \div (24 * 60 * 60),
            ms |-> (timestamp % (24 * 60 * 60)) * 1000]

\* The forEach of calculatePausedMinutesInPeriod from event i on; now is the
\* new Date() taken for an event without resumedAt.
RECURSIVE PausedMinutesFrom(_, _, _, _, _)
PausedMinutesFrom(events, i, periodStart, periodEnd, now) ==
  IF i > Len(events) THEN 0
  ELSE LET event == events[i]
           pausedAt == event.pausedAt
           resumedAt == IF event.resumedAt # NullInstant
                        THEN event.resumedAt ELSE now
           overlapStart == IF IsBefore(periodStart, pausedAt)
                           THEN pausedAt ELSE periodStart
           overlapEnd == IF IsBefore(resumedAt, periodEnd)
                         THEN resumedAt ELSE periodEnd
           added == IF event.pausedAt # NullInstant
                       /\ IsBefore(overlapStart, overlapEnd)
                    THEN calculateBusinessMinutes(overlapStart, overlapEnd)
                    ELSE 0
       IN  added + PausedMinutesFrom(events, i + 1, periodStart,
                                     periodEnd, now)

calculatePausedMinutesInPeriod(events, periodStart, periodEnd, now) ==
  IF Len(events) = 0 THEN 0
  ELSE PausedMinutesFrom(events, 1, periodStart, periodEnd, now)

MathMax0(n) == IF n > 0 THEN n ELSE 0

\* Lines 398-405: the start of the current list's period.
CurrentListStart(entered, cardId) ==
  IF entered # NullInstant THEN entered
  ELSE CardCreationDate(cardId)

\* Bounds of the inputs: CurSpanDays + 1 days from Thursday 2025-05-22, three
\* times of day, at most MaxPauses pause events.
CurSpanDays == 1
MaxPauses == 2
CurTimes == {0, 9 * MsPerHour, 17 * MsPerHour}
CurInstants == [day : BizFirstDay..(BizFirstDay + CurSpanDays), ms : CurTimes]

\* A card created on Thursday 2025-05-22 at 09:00 (0x682ee790 seconds), and
\* an id that does not start with a hex digit.
CreatedThursdayId ==
  <<"6", "8", "2", "e", "e", "7", "9", "0">> \o IdTail
MalformedId == <<"n", "e", "w", "-", "c", "a", "r", "d">>
CurCardIds == {CreatedThursdayId, MalformedId}

\* The ledgers savePauseEvent builds: each event closed before the next one
\* opens, only the last one may be open, nothing later than now.
PauseIntervals(now) ==
  {e \in [pausedAt : CurInstants, resumedAt : CurInstants \cup {NullInstant}] :
     /\ ~IsBefore(now, e.pausedAt)
     /\ e.resumedAt # NullInstant
          => IsBefore(e.pausedAt, e.resumedAt) /\ ~IsBefore(now, e.resumedAt)}

PauseLedgers(now) ==
  {ev \in UNION {[1..n -> PauseIntervals(now)] : n \in 0..MaxPauses} :
     \A i \in 1..(Len(ev) - 1) :
       /\ ev[i].resumedAt # NullInstant
       /\ ~IsBefore(ev[i + 1].pausedAt, ev[i].resumedAt)}

InitCur ==
  /\ curApi \in {"ok", "noToken", "fetchFailed"}
  /\ curNow \in CurInstants
  /\ \/ /\ curEntered \in {x \in CurInstants : ~IsBefore(curNow, x)}
        /\ curCardId = CreatedThursdayId
     \/ /\ curEntered = NullInstant
        /\ curCardId \in CurCardIds
  /\ curEvents \in PauseLedgers(curNow)
  /\ curStart = NullInstant
  /\ curTotal = 0
  /\ curPaused = 0
  /\ curActive = 0
  /\ curResult = "pending"
  /\ curPc = "ready"

IdleCur ==
  /\ curApi = "ok"
  /\ curNow = NullInstant
  /\ curEntered = NullInstant
  /\ curCardId = <<>>
  /\ curEvents = <<>>
  /\ curStart = NullInstant
  /\ curTotal = 0
  /\ curPaused = 0
  /\ curActive = 0
  /\ curResult = "pending"
  /\ curPc = "ready"

\* calculateCurrentListTime, lines 371-425: no statement of it or of the
\* functions it calls throws on an invalid Date.
CalculateCurrentListTime ==
  /\ curPc = "ready"
  /\ curPc' = "done"
  /\ IF curApi # "ok"
       THEN /\ curResult' = "null"
            /\ UNCHANGED <<curStart, curTotal, curPaused, curActive>>
       ELSE LET startDate == CurrentListStart(curEntered, curCardId)
                totalMinutes == calculateBusinessMinutes(startDate, curNow)
                pausedMinutes ==
                  calculatePausedMinutesInPeriod(curEvents, startDate, curNow,
                                                 curNow)
                activeMinutes == MathMax0(totalMinutes - pausedMinutes)
            IN  /\ curStart' = startDate
                /\ curTotal' = totalMinutes
                /\ curPaused' = pausedMinutes
                /\ curActive' = activeMinutes
                /\ curResult' = formatBusinessTime(activeMinutes)
  /\ UNCHANGED <<curApi, curEntered, curCardId, curEvents, curNow>>

(***************************************************************************)
(* togglePauseResume and checkAndHandleAutoPauseResume interleaved at      *)
(* their awaits: src/time-in-list/power-up.js, lines 164-179 and 244-290   *)
(*                                                                         *)
(* Each operation is a chain of promises: one action below is the code     *)
(* between two awaits of storage.  The card is not moved and the           *)
(* configuration is not saved while the operations run, so the reads of    *)
(* t.card and of pauseLists are taken with the step that follows them.     *)
(***************************************************************************)

MaxProcs == 2
Procs == 1..MaxProcs
IlvLists == {"L1", "L2"}

\* What one call of savePauseEvent does to the array it read.
NoChange == [kind |-> "none", at |-> NoTime]

SaveEffect(ev, pausedAt, resumedAt) ==
  IF pausedAt # NoTime /\ resumedAt = NoTime
  THEN [kind |-> "append", at |-> pausedAt]
  ELSE IF resumedAt # NoTime /\ Len(ev) > 0 /\ ev[Len(ev)].resumedAt = NoTime
       THEN [kind |-> "close", at |-> resumedAt]
       ELSE NoChange

NewProc(op) ==
  [op |-> op, pc |-> "start", last |-> NoList,
   pausedAt |-> NoTime, resumedAt |-> NoTime, reason |-> "manual",
   buf |-> <<>>, did |-> NoChange]

InitIlv ==
  /\ ilvEvents \in
       {<<>>,
        <<[pausedAt |-> 1, resumedAt |-> NoTime, reason |-> "auto"]>>,
        <<[pausedAt |-> 1, resumedAt |-> NoTime, reason |-> "manual"]>>}
  /\ ilvLastListId \in IlvLists \cup {NoList}
  /\ ilvPauseLists \in SUBSET IlvLists
  /\ ilvIdList \in IlvLists
  /\ ilvClock = 1
  /\ ilvProc \in [Procs -> {NewProc("toggle"), NewProc("check")}]
  /\ ilvSerial = TRUE

IdleIlv ==
  /\ ilvEvents = <<>>
  /\ ilvLastListId = NoList
  /\ ilvPauseLists = {}
  /\ ilvIdList = "L1"
  /\ ilvClock = 1
  /\ ilvProc = [p \in Procs |-> NewProc("toggle")]
  /\ ilvSerial = TRUE

\* The step of p comes while another operation is under way.
Overlaps(p) ==
  \E q \in Procs \ {p} : ilvProc[q].pc \notin {"start", "done"}

Step(p, proc) ==
  /\ ilvProc' = [ilvProc EXCEPT ![p] = proc]
  /\ ilvSerial' = (ilvSerial /\ ~Overlaps(p))

\* checkAndHandleAutoPauseResume, lines 245-249: t.card and the read of
\* lastListId.
CheckGetLastListId(p) ==
  /\ ilvProc[p].op = "check"
  /\ ilvProc[p].pc = "start"
  /\ Step(p, [ilvProc[p] EXCEPT !.pc = "getEvents", !.last = ilvLastListId])
  /\ UNCHANGED <<ilvEvents, ilvLastListId, ilvPauseLists, ilvIdList, ilvClock>>

\* Lines 250-268: the reads of pauseLists and pauseEvents and the branch
\* taken; new Date() is read for the argument of savePauseEvent.
CheckGetPauseEvents(p) ==
  /\ ilvProc[p].op = "check"
  /\ ilvProc[p].pc = "getEvents"
  /\ LET proc == ilvProc[p]
         isPaused == isCardPaused(ilvEvents)
         wasAutoPaused == isLastPauseAuto(ilvEvents)
         listChanged == proc.last # ilvIdList
         newListIsPauseList == isListInPauseLists(ilvIdList, ilvPauseLists)
         oldListWasPauseList == isListInPauseLists(proc.last, ilvPauseLists)
         now == ilvClock + 1
     IN  IF listChanged /\ newListIsPauseList /\ ~isPaused
         THEN /\ Step(p, [proc EXCEPT !.pc = "saveGet", !.pausedAt = now,
                                      !.reason = "auto"])
              /\ ilvClock' = now
         ELSE IF listChanged /\ oldListWasPauseList /\ wasAutoPaused
              THEN /\ Step(p, [proc EXCEPT !.pc = "saveGet",
                                           !.resumedAt = now])
                   /\ ilvClock' = now
              ELSE /\ Step(p, [proc EXCEPT !.pc =
                                  IF listChanged \/ proc.last = NoList
                                  THEN "setLast" ELSE "done"])
                   /\ UNCHANGED ilvClock
  /\ UNCHANGED <<ilvEvents, ilvLastListId, ilvPauseLists, ilvIdList>>

\* togglePauseResume, lines 277-289: new Date(), the read of pauseEvents and
\* the branch taken.
ToggleGetPauseEvents(p) ==
  /\ ilvProc[p].op = "toggle"
  /\ ilvProc[p].pc = "start"
  /\ LET now == ilvClock + 1
     IN  /\ ilvClock' = now
         /\ IF isCardPaused(ilvEvents)
              THEN Step(p, [ilvProc[p] EXCEPT !.pc = "saveGet",
                                             !.resumedAt = now])
              ELSE Step(p, [ilvProc[p] EXCEPT !.pc = "saveGet",
                                             !.pausedAt = now])
  /\ UNCHANGED <<ilvEvents, ilvLastListId, ilvPauseLists, ilvIdList>>

\* savePauseEvent, lines 165-176: its own read of pauseEvents and the change
\* of the array it got.
SaveGetPauseEvents(p) ==
  /\ ilvProc[p].pc = "saveGet"
  /\ LET proc == ilvProc[p]
     IN  Step(p, [proc EXCEPT
                    !.pc = "saveSet",
                    !.buf = savePauseEvent(ilvEvents, proc.pausedAt,
                                           proc.resumedAt, proc.reason),
                    !.did = SaveEffect(ilvEvents, proc.pausedAt,
                                       proc.resumedAt)])
  /\ UNCHANGED <<ilvEvents, ilvLastListId, ilvPauseLists, ilvIdList, ilvClock>>

\* savePauseEvent, line 178: t.set of the array.
SaveSetPauseEvents(p) ==
  /\ ilvProc[p].pc = "saveSet"
  /\ ilvEvents' = ilvProc[p].buf
  /\ Step(p, [ilvProc[p] EXCEPT !.pc =
                 IF ilvProc[p].op = "check" THEN "setLast" ELSE "done"])
  /\ UNCHANGED <<ilvLastListId, ilvPauseLists, ilvIdList, ilvClock>>

\* checkAndHandleAutoPauseResume, lines 265 and 267: t.set of lastListId.
CheckSetLastListId(p) ==
  /\ ilvProc[p].pc = "setLast"
  /\ ilvLastListId' = ilvIdList
  /\ Step(p, [ilvProc[p] EXCEPT !.pc = "done"])
  /\ UNCHANGED <<ilvEvents, ilvPauseLists, ilvIdList, ilvClock>>

(***************************************************************************)
(* Start Case: startCaseCallback, src/unnamed/part_005, lines 16-141       *)
(***************************************************************************)

\* How a fetch settles: a response with ok, one without, a rejected promise
\* (the request did not reach Trello).
FetchResults == {"ok", "notOk", "rejected"}

\* The card has no "Days to Release" number.
NoDays == 0
MaxDays == 2

InitStartCase ==
  /\ scToken \in BOOLEAN
  /\ scBoard \in [inDevelopmentList : BOOLEAN, daysToReleaseField : BOOLEAN]
  /\ scDays \in {NoDays} \cup 1..MaxDays
  /\ scCard \in [idList : {"TODO", "IN DEVELOPMENT"},
                  idMembers : SUBSET {"me", "other"},
                  due : {"none", "old"}]
  /\ scAlert = "none"
  /\ scApplied = {}
  /\ scPc = "token"

IdleStartCase ==
  /\ scToken = FALSE
  /\ scBoard = [inDevelopmentList |-> FALSE, daysToReleaseField |-> FALSE]
  /\ scDays = NoDays
  /\ scCard = [idList |-> "TODO", idMembers |-> {}, due |-> "none"]
  /\ scAlert = "none"
  /\ scApplied = {}
  /\ scPc = "token"

\* The callback ends with an alert; a throw ends in the catch block, lines
\* 134-140.
EndWith(alert) ==
  /\ scAlert' = alert
  /\ scPc' = "done"

Catch == EndWith("An error occurred while moving the card.")

\* Lines 18-21.
GetAuthToken ==
  /\ scPc = "token"
  /\ IF scToken
       THEN scPc' = "lists" /\ UNCHANGED scAlert
       ELSE EndWith("authorize")
  /\ UNCHANGED <<scToken, scBoard, scDays, scCard, scApplied>>

\* Lines 27-47: the lists of the board and the search for "IN DEVELOPMENT".
FindInDevelopmentList ==
  /\ scPc = "lists"
  /\ \E response \in FetchResults :
       IF response # "ok" THEN Catch
       ELSE IF ~scBoard.inDevelopmentList
            THEN EndWith("List \"IN DEVELOPMENT\" not found on this board.")
            ELSE scPc' = "update" /\ UNCHANGED scAlert
  /\ UNCHANGED <<scToken, scBoard, scDays, scCard, scApplied>>

\* Lines 49-65: one PUT sets idList and idMembers.
MoveAndAssign ==
  /\ scPc = "update"
  /\ \E updateResponse \in FetchResults :
       IF updateResponse = "ok"
       THEN /\ scCard' = [scCard EXCEPT !.idList = "IN DEVELOPMENT",
                                        !.idMembers = {"me"}]
            /\ scApplied' = scApplied \cup {"move", "assign"}
            /\ scPc' = "customFields"
            /\ UNCHANGED scAlert
       ELSE /\ Catch
            /\ UNCHANGED <<scCard, scApplied>>
  /\ UNCHANGED <<scToken, scBoard, scDays>>

\* Lines 67-91: the custom fields of the board and the search for "Days to
\* Release".
FindDaysToReleaseField ==
  /\ scPc = "customFields"
  /\ \E customFieldsResponse \in FetchResults :
       IF customFieldsResponse # "ok" THEN Catch
       ELSE IF ~scBoard.daysToReleaseField
            THEN EndWith("Card moved and assigned. Note: 'Days to Release' field not found.")
            ELSE scPc' = "cardFields" /\ UNCHANGED scAlert
  /\ UNCHANGED <<scToken, scBoard, scDays, scCard, scApplied>>

\* Lines 93-119: the card's custom field items and the value of the field.
GetDaysToReleaseValue ==
  /\ scPc = "cardFields"
  /\ \E cardCustomFieldsResponse \in FetchResults :
       IF cardCustomFieldsResponse # "ok" THEN Catch
       ELSE IF scDays = NoDays
            THEN EndWith("Card moved and assigned. Note: 'Days to Release' value not set.")
            ELSE scPc' = "due" /\ UNCHANGED scAlert
  /\ UNCHANGED <<scToken, scBoard, scDays, scCard, scApplied>>

\* Lines 121-133: the due date and the PUT that sets it.
SetDueDate ==
  /\ scPc = "due"
  /\ \E dueDateResponse \in FetchResults :
       IF dueDateResponse = "ok"
       THEN /\ scCard' = [scCard EXCEPT !.due = "new"]
            /\ scApplied' = scApplied \cup {"due"}
            /\ EndWith("Card started!")
       ELSE /\ Catch
            /\ UNCHANGED <<scCard, scApplied>>
  /\ UNCHANGED <<scToken, scBoard, scDays>>

(***************************************************************************)
(* Specifications                                                          *)
(***************************************************************************)

Init ==
  InitPause /\ IdleBiz /\ IdleHist /\ IdleReport /\ IdleAgg /\ IdleDue /\
  IdleHol /\ IdleFmt /\ IdleCsv /\ IdleCur /\ IdleIlv /\ IdleStartCase

Next ==
  \/ MoveCard
       /\ UNCHANGED <<bizVars, histVars, repVars, aggVars, dueVars, holVars,
                      fmtVars, csvVars, curVars, ilvVars, scVars>>
  \/ SetPauseListsConfig
       /\ UNCHANGED <<bizVars, histVars, repVars, aggVars, dueVars, holVars,
                      fmtVars, csvVars, curVars, ilvVars, scVars>>
  \/ CheckAndHandleAutoPauseResume
       /\ UNCHANGED <<bizVars, histVars, repVars, aggVars, dueVars, holVars,
                      fmtVars, csvVars, curVars, ilvVars, scVars>>
  \/ TogglePauseResume
       /\ UNCHANGED <<bizVars, histVars, repVars, aggVars, dueVars, holVars,
                      fmtVars, csvVars, curVars, ilvVars, scVars>>

Spec == Init /\ [][Next]_vars

NextBiz ==
  CalculateBusinessMinutes
    /\ UNCHANGED <<pauseVars, histVars, repVars, aggVars, dueVars, holVars,
                   fmtVars, csvVars, curVars, ilvVars, scVars>>

InitSpecBiz ==
  InitBiz /\ IdlePause /\ IdleHist /\ IdleReport /\ IdleAgg /\ IdleDue /\
  IdleHol /\ IdleFmt /\ IdleCsv /\ IdleCur /\ IdleIlv /\ IdleStartCase

SpecBiz == InitSpecBiz /\ [][NextBiz]_vars

NextHist ==
  \/ BuildCardHistory
       /\ UNCHANGED <<pauseVars, bizVars, repVars, aggVars, dueVars, holVars,
                      fmtVars, csvVars, curVars, ilvVars, scVars>>
  \/ GetDaysFromCurrentWorkToReleased
       /\ UNCHANGED <<pauseVars, bizVars, repVars, aggVars, dueVars, holVars,
                      fmtVars, csvVars, curVars, ilvVars, scVars>>

InitSpecHist ==
  InitHist /\ IdlePause /\ IdleBiz /\ IdleReport /\ IdleAgg /\ IdleDue /\
  IdleHol /\ IdleFmt /\ IdleCsv /\ IdleCur /\ IdleIlv /\ IdleStartCase

SpecHist == InitSpecHist /\ [][NextHist]_vars

NextReport ==
  \/ StartGenerateReport
       /\ UNCHANGED <<pauseVars, bizVars, histVars, aggVars, dueVars, holVars,
                      fmtVars, csvVars, curVars, ilvVars, scVars>>
  \/ FetchListCards
       /\ UNCHANGED <<pauseVars, bizVars, histVars, aggVars, dueVars, holVars,
                      fmtVars, csvVars, curVars, ilvVars, scVars>>
  \/ GetListIds
       /\ UNCHANGED <<pauseVars, bizVars, histVars, aggVars, dueVars, holVars,
                      fmtVars, csvVars, curVars, ilvVars, scVars>>
  \/ FetchBoardCustomFields
       /\ UNCHANGED <<pauseVars, bizVars, histVars, aggVars, dueVars, holVars,
                      fmtVars, csvVars, curVars, ilvVars, scVars>>
  \/ \E s \in Slots :
       FetchFnSettles(s)
         /\ UNCHANGED <<pauseVars, bizVars, histVars, aggVars, dueVars,
                        holVars, fmtVars, csvVars, curVars, ilvVars, scVars>>
  \/ \E s \in Slots :
       BackoffElapses(s)
         /\ UNCHANGED <<pauseVars, bizVars, histVars, aggVars, dueVars,
                        holVars, fmtVars, csvVars, curVars, ilvVars, scVars>>
  \/ NextCard
       /\ UNCHANGED <<pauseVars, bizVars, histVars, aggVars, dueVars, holVars,
                      fmtVars, csvVars, curVars, ilvVars, scVars>>
  \/ FetchMembers
       /\ UNCHANGED <<pauseVars, bizVars, histVars, aggVars, dueVars, holVars,
                      fmtVars, csvVars, curVars, ilvVars, scVars>>
  \/ FinishReport
       /\ UNCHANGED <<pauseVars, bizVars, histVars, aggVars, dueVars, holVars,
                      fmtVars, csvVars, curVars, ilvVars, scVars>>

InitSpecReport ==
  InitReport /\ IdlePause /\ IdleBiz /\ IdleHist /\ IdleAgg /\ IdleDue /\
  IdleHol /\ IdleFmt /\ IdleCsv /\ IdleCur /\ IdleIlv /\ IdleStartCase

SpecReport == InitSpecReport /\ [][NextReport]_vars

NextAgg ==
  \/ AggregateCardData
       /\ UNCHANGED <<pauseVars, bizVars, histVars, repVars, dueVars, holVars,
                      fmtVars, csvVars, curVars, ilvVars, scVars>>
  \/ GenerateCSV
       /\ UNCHANGED <<pauseVars, bizVars, histVars, repVars, dueVars, holVars,
                      fmtVars, csvVars, curVars, ilvVars, scVars>>

InitSpecAgg ==
  InitAgg /\ IdlePause /\ IdleBiz /\ IdleHist /\ IdleReport /\ IdleDue /\
  IdleHol /\ IdleFmt /\ IdleCsv /\ IdleCur /\ IdleIlv /\ IdleStartCase

SpecAgg == InitSpecAgg /\ [][NextAgg]_vars

NextDue ==
  \/ GetCardCompletionDate
       /\ UNCHANGED <<pauseVars, bizVars, histVars, repVars, aggVars, holVars,
                      fmtVars, csvVars, curVars, ilvVars, scVars>>
  \/ CountDueCard
       /\ UNCHANGED <<pauseVars, bizVars, histVars, repVars, aggVars, holVars,
                      fmtVars, csvVars, curVars, ilvVars, scVars>>

InitSpecDue ==
  InitDue /\ IdlePause /\ IdleBiz /\ IdleHist /\ IdleReport /\ IdleAgg /\
  IdleHol /\ IdleFmt /\ IdleCsv /\ IdleCur /\ IdleIlv /\ IdleStartCase

SpecDue == InitSpecDue /\ [][NextDue]_vars

NextHol ==
  \/ IsBusinessDay
       /\ UNCHANGED <<pauseVars, bizVars, histVars, repVars, aggVars, dueVars,
                      fmtVars, csvVars, curVars, ilvVars, scVars>>
  \/ CalculateMinutesInsideDay
       /\ UNCHANGED <<pauseVars, bizVars, histVars, repVars, aggVars, dueVars,
                      fmtVars, csvVars, curVars, ilvVars, scVars>>

InitSpecHol ==
  InitHol /\ IdlePause /\ IdleBiz /\ IdleHist /\ IdleReport /\ IdleAgg /\
  IdleDue /\ IdleFmt /\ IdleCsv /\ IdleCur /\ IdleIlv /\ IdleStartCase

SpecHol == InitSpecHol /\ [][NextHol]_vars

NextFmt ==
  FormatBusinessTime
    /\ UNCHANGED <<pauseVars, bizVars, histVars, repVars, aggVars, dueVars,
                   holVars, csvVars, curVars, ilvVars, scVars>>

InitSpecFmt ==
  InitFmt /\ IdlePause /\ IdleBiz /\ IdleHist /\ IdleReport /\ IdleAgg /\
  IdleDue /\ IdleHol /\ IdleCsv /\ IdleCur /\ IdleIlv /\ IdleStartCase

SpecFmt == InitSpecFmt /\ [][NextFmt]_vars

NextCsv ==
  EscapeCSV
    /\ UNCHANGED <<pauseVars, bizVars, histVars, repVars, aggVars, dueVars,
                   holVars, fmtVars, curVars, ilvVars, scVars>>

InitSpecCsv ==
  InitCsv /\ IdlePause /\ IdleBiz /\ IdleHist /\ IdleReport /\ IdleAgg /\
  IdleDue /\ IdleHol /\ IdleFmt /\ IdleCur /\ IdleIlv /\ IdleStartCase

SpecCsv == InitSpecCsv /\ [][NextCsv]_vars

NextCur ==
  CalculateCurrentListTime
    /\ UNCHANGED <<pauseVars, bizVars, histVars, repVars, aggVars, dueVars,
                   holVars, fmtVars, csvVars, ilvVars, scVars>>

InitSpecCur ==
  InitCur /\ IdlePause /\ IdleBiz /\ IdleHist /\ IdleReport /\ IdleAgg /\
  IdleDue /\ IdleHol /\ IdleFmt /\ IdleCsv /\ IdleIlv /\ IdleStartCase

SpecCur == InitSpecCur /\ [][NextCur]_vars

NextIlv ==
  \/ \E p \in Procs :
       CheckGetLastListId(p)
         /\ UNCHANGED <<pauseVars, bizVars, histVars, repVars, aggVars,
                        dueVars, holVars, fmtVars, csvVars, curVars, scVars>>
  \/ \E p \in Procs :
       CheckGetPauseEvents(p)
         /\ UNCHANGED <<pauseVars, bizVars, histVars, repVars, aggVars,
                        dueVars, holVars, fmtVars, csvVars, curVars, scVars>>
  \/ \E p \in Procs :
       ToggleGetPauseEvents(p)
         /\ UNCHANGED <<pauseVars, bizVars, histVars, repVars, aggVars,
                        dueVars, holVars, fmtVars, csvVars, curVars, scVars>>
  \/ \E p \in Procs :
       SaveGetPauseEvents(p)
         /\ UNCHANGED <<pauseVars, bizVars, histVars, repVars, aggVars,
                        dueVars, holVars, fmtVars, csvVars, curVars, scVars>>
  \/ \E p \in Procs :
       SaveSetPauseEvents(p)
         /\ UNCHANGED <<pauseVars, bizVars, histVars, repVars, aggVars,
                        dueVars, holVars, fmtVars, csvVars, curVars, scVars>>
  \/ \E p \in Procs :
       CheckSetLastListId(p)
         /\ UNCHANGED <<pauseVars, bizVars, histVars, repVars, aggVars,
                        dueVars, holVars, fmtVars, csvVars, curVars, scVars>>

InitSpecIlv ==
  InitIlv /\ IdlePause /\ IdleBiz /\ IdleHist /\ IdleReport /\ IdleAgg /\
  IdleDue /\ IdleHol /\ IdleFmt /\ IdleCsv /\ IdleCur /\ IdleStartCase

SpecIlv == InitSpecIlv /\ [][NextIlv]_vars

NextStartCase ==
  \/ GetAuthToken
       /\ UNCHANGED <<pauseVars, bizVars, histVars, repVars, aggVars, dueVars,
                      holVars, fmtVars, csvVars, curVars, ilvVars>>
  \/ FindInDevelopmentList
       /\ UNCHANGED <<pauseVars, bizVars, histVars, repVars, aggVars, dueVars,
                      holVars, fmtVars, csvVars, curVars, ilvVars>>
  \/ MoveAndAssign
       /\ UNCHANGED <<pauseVars, bizVars, histVars, repVars, aggVars, dueVars,
                      holVars, fmtVars, csvVars, curVars, ilvVars>>
  \/ FindDaysToReleaseField
       /\ UNCHANGED <<pauseVars, bizVars, histVars, repVars, aggVars, dueVars,
                      holVars, fmtVars, csvVars, curVars, ilvVars>>
  \/ GetDaysToReleaseValue
       /\ UNCHANGED <<pauseVars, bizVars, histVars, repVars, aggVars, dueVars,
                      holVars, fmtVars, csvVars, curVars, ilvVars>>
  \/ SetDueDate
       /\ UNCHANGED <<pauseVars, bizVars, histVars, repVars, aggVars, dueVars,
                      holVars, fmtVars, csvVars, curVars, ilvVars>>

InitSpecStartCase ==
  InitStartCase /\ IdlePause /\ IdleBiz /\ IdleHist /\ IdleReport /\ IdleAgg
  /\ IdleDue /\ IdleHol /\ IdleFmt /\ IdleCsv /\ IdleCur /\ IdleIlv

SpecStartCase == InitSpecStartCase /\ [][NextStartCase]_vars

(***************************************************************************)
(* Claims about the pause ledger (checked under Spec)                      *)
(***************************************************************************)

AtMostOneOpenAndLast(ev) ==
  \A i \in 1..Len(ev) : ev[i].resumedAt = NoTime => i = Len(ev)

LedgerStep(old, new) ==
  \/ new = old
  \/ /\ Len(new) = Len(old) + 1
     /\ SubSeq(new, 1, Len(old)) = old
     /\ \A i \in 1..Len(old) : old[i].resumedAt # NoTime
     /\ new[Len(new)].resumedAt = NoTime
  \/ /\ Len(new) = Len(old)
     /\ Len(old) > 0
     /\ old[Len(old)].resumedAt = NoTime
     /\ new[Len(old)].resumedAt # NoTime
     /\ new = [old EXCEPT ![Len(old)].resumedAt = new[Len(old)].resumedAt]

\* C1: after any sequence of togglePauseResume and checkAndHandleAutoPauseResume
\* runs, at most one stored event is open and it is the last one; a step either
\* leaves the sequence alone, appends one open event when no event is open, or
\* sets resumedAt of the last, open event and nothing else.
C1_OneOpenPauseLast ==
  /\ AtMostOneOpenAndLast(pauseEvents)
  /\ [][/\ AtMostOneOpenAndLast(pauseEvents')
        /\ LedgerStep(pauseEvents, pauseEvents')]_vars

C1_Witness ==
  /\ Len(pauseEvents) = 3
  /\ pauseEvents[1].resumedAt # NoTime
  /\ pauseEvents[2].reason = "auto"
  /\ pauseEvents[2].resumedAt # NoTime
  /\ pauseEvents[3].reason = "manual"
  /\ pauseEvents[3].resumedAt = NoTime

LastOpenWithReason(ev, reasons) ==
  /\ Len(ev) > 0
  /\ ev[Len(ev)].resumedAt = NoTime
  /\ ev[Len(ev)].reason \in reasons

\* C2: while the last event is open and manual (or has no reason field) a
\* check never changes pauseEvents, and no check changes an event that is
\* already closed.
C2_ManualPauseNeverAutoResumed ==
  [][lastOp' = "check" =>
       /\ LastOpenWithReason(pauseEvents, {"manual", NoReason})
            => pauseEvents' = pauseEvents
       /\ Len(pauseEvents') >= Len(pauseEvents)
       /\ \A i \in 1..Len(pauseEvents) :
            pauseEvents[i].resumedAt # NoTime => pauseEvents'[i] = pauseEvents[i]
    ]_vars

C2_Witness ==
  /\ lastOp = "check"
  /\ Len(pauseEvents) >= 2
  /\ pauseEvents[1].reason = "auto"
  /\ pauseEvents[1].resumedAt # NoTime
  /\ isCardPaused(pauseEvents)
  /\ pauseEvents[Len(pauseEvents)].reason = "manual"
  /\ pauseLists # {}
  /\ lastListId \notin pauseLists

\* C6 (as claimed): the first check that sees the card outside the list whose
\* entry opened the running auto pause closes that pause, whatever the
\* pause-list configuration is at that check.
C6_AutoResumeOnLeaving ==
  [][(/\ lastOp' = "check"
      /\ LastOpenWithReason(pauseEvents, {"auto"})
      /\ autoOpenList # NoList
      /\ idList # autoOpenList)
       => /\ ~isCardPaused(pauseEvents')
          /\ Len(pauseEvents') = Len(pauseEvents)
          /\ pauseEvents'[Len(pauseEvents)].resumedAt # NoTime
    ]_vars

\* C7: togglePauseResume flips isCardPaused: it closes the open last event
\* (only resumedAt changes) or appends one open manual event, leaves the
\* earlier events alone and returns isCardPaused of what it stored.
C7_ToggleFlips ==
  [][lastOp' = "toggle" =>
       /\ isCardPaused(pauseEvents') # isCardPaused(pauseEvents)
       /\ IF isCardPaused(pauseEvents)
          THEN pauseEvents' =
                 [pauseEvents EXCEPT ![Len(pauseEvents)].resumedAt = clock']
          ELSE pauseEvents' =
                 Append(pauseEvents, [pausedAt |-> clock', resumedAt |-> NoTime,
                                      reason |-> "manual"])
       /\ toggleRet' = isCardPaused(pauseEvents')
    ]_vars

C7_Witness ==
  /\ lastOp = "toggle"
  /\ toggleRet = FALSE
  /\ Len(pauseEvents) >= 2
  /\ pauseEvents[Len(pauseEvents)].reason = "auto"
  /\ pauseEvents[Len(pauseEvents)].resumedAt # NoTime

(***************************************************************************)
(* Claims about calculateBusinessMinutes (checked under SpecBiz)           *)
(***************************************************************************)

NotAfter(x, y) == ~IsBefore(y, x)

\* C3 (as claimed): for instants a <= b <= c the business minutes of [a,b]
\* and of [b,c] add up to the business minutes of [a,c].
C3_Additivity ==
  (bizPc = "done" /\ NotAfter(bizA, bizB) /\ NotAfter(bizB, bizC))
    => bizAB + bizBC = bizAC

\* C28: under a fixed pause-list configuration and with no manual toggle,
\* starting from an empty ledger and no stored lastListId, after every
\* completed checkAndHandleAutoPauseResume the card is paused if and only if
\* the list the check saw is a pause-trigger list (also after a move from one
\* pause list directly to another), and the stored lastListId is that list.
C28_PausedIffInPauseList ==
  (autoOnly /\ lastOp = "check")
    => /\ isCardPaused(pauseEvents) <=> isListInPauseLists(idList, pauseLists)
       /\ lastListId = idList

(***************************************************************************)
(* Claims about the business calendar (checked under SpecHol and SpecBiz)  *)
(***************************************************************************)

\* C17 (as claimed): each holiday of the README's Business Time Rules is in
\* every year a day for which isBusinessDay is false and inside which
\* calculateBusinessMinutes gives 0 for every interval.
C17_ReadmeHolidaysExcluded ==
  /\ holPc \in {"checked", "done"} => ~holBusinessDay
  /\ holPc = "done" => holMinutes = 0

\* The date the list holds for the i-th floating rule.
FloatingDate(i) == holHolidays[Len(HOLIDAY_RULES.fixed) + i]

\* C21: for every year and every floating rule the scan of
\* getHolidaysForYear ends with a date of the rule's month and day of the
\* week whose day of the month lies in 7(week-1)+1 .. 7*week, or in the last
\* seven days of the month for week = -1; Thanksgiving 2025 is 2025-11-27
\* and Memorial Day 2025 is 2025-05-26.
C21_FloatingHolidays ==
  holPc \in {"checked", "done"} =>
    /\ Len(holHolidays) = Len(HOLIDAY_RULES.fixed) + Len(HOLIDAY_RULES.floating)
    /\ \A i \in 1..Len(HOLIDAY_RULES.floating) :
         LET rule == HOLIDAY_RULES.floating[i]
             date == CivilFromDays(FloatingDate(i))
         IN  /\ date.year = holYear
             /\ date.month = rule.month
             /\ DayOfWeek(FloatingDate(i)) = rule.dayOfWeek
             /\ IF rule.week = -1
                THEN CivilFromDays(FloatingDate(i) + 7).month # rule.month
                ELSE date.date \in (7 * (rule.week - 1) + 1)..(7 * rule.week)
    /\ holYear = 2025 =>
         /\ FloatingDate(4) = DaysFromCivil(2025, 10, 27)
         /\ FloatingDate(2) = DaysFromCivil(2025, 4, 26)

\* The list of 2025 holds Thursday 2025-11-27 and Monday 2025-05-26.
C21_Witness ==
  /\ holPc = "done"
  /\ holYear = 2025
  /\ CivilFromDays(FloatingDate(4)) = [year |-> 2025, month |-> 10, date |-> 27]
  /\ CivilFromDays(FloatingDate(2)) = [year |-> 2025, month |-> 4, date |-> 26]
  /\ DayOfWeek(FloatingDate(4)) = 4
  /\ DayOfWeek(FloatingDate(2)) = 1

\* The three calls of calculateBusinessMinutes of a state: start, end, result.
BizCalls ==
  {[start |-> bizA, end |-> bizB, minutes |-> bizAB],
   [start |-> bizB, end |-> bizC, minutes |-> bizBC],
   [start |-> bizA, end |-> bizC, minutes |-> bizAC]}

\* A weekday that is none of the README's holidays.
WorkingDay(day) ==
  /\ DayOfWeek(day) \in 1..5
  /\ \A name \in ReadmeHolidays : day # ReadmeHoliday(YearOf(day), name)

\* C18 (as claimed): from 00:00 of a day to 00:00 of a later day the result
\* is 1440 minutes for each business day from the first day up to the day
\* before the last, and nothing for the other days.
C18_FullDays ==
  bizPc = "done" =>
    \A c \in BizCalls :
      (c.start.ms = 0 /\ c.end.ms = 0 /\ c.start.day < c.end.day) =>
        c.minutes =
          1440 * Cardinality({d \in c.start.day..(c.end.day - 1) : WorkingDay(d)})

\* C19 (as claimed): when the end lies on a business day after the start's
\* day, the result is at least the whole minutes from 00:00 of the end's day
\* to the end.
C19_LastDayCounted ==
  bizPc = "done" =>
    \A c \in BizCalls :
      (c.start.day < c.end.day /\ WorkingDay(c.end.day)) =>
        c.minutes >= c.end.ms \div MsPerMinute

Retained(actions) == SelectSeq(actions, IsHistoryAction)

\* A card's id is minted when the card is created, before any of its actions.
CreatedBeforeActions(actions, cardId) ==
  \A i \in 1..Len(actions) : getCardCreationDate(cardId) <= actions[i].date

AsFromTrello(actions, cardId) ==
  NewestFirst(actions) /\ CreateIsOldest(actions)
    /\ CreatedBeforeActions(actions, cardId)

\* The case of a copied card as the claim states it: the oldest retained
\* action is a list move that records listBefore and no createCard is retained.
CopiedCardCase(actions) ==
  LET ret == Retained(actions)
  IN  /\ Len(ret) > 0
      /\ ret[Len(ret)].type = "updateCard"
      /\ ret[Len(ret)].listBefore # Absent
      /\ \A i \in 1..Len(ret) : ret[i].type # "createCard"

\* C10 (as claimed): for an action list as Trello returns it, in the
\* copied-card case the history has one entry more than the retained actions
\* and starts with listBefore entered at the creation time decoded from the
\* card id; in every other case it has as many entries as retained actions.
C10_CopiedCardSynthesis ==
  (histPc = "done" /\ AsFromTrello(histActions, histCardId)) =>
    LET ret == Retained(histActions)
    IN  IF CopiedCardCase(histActions)
        THEN /\ Len(histOut) = Len(ret) + 1
             /\ histOut[1] = [listName |-> ret[Len(ret)].listBefore,
                              enteredAt |-> getCardCreationDate(histCardId)]
        ELSE Len(histOut) = Len(ret)

Chronological(history) ==
  \A i \in 1..(Len(history) - 1) : history[i].enteredAt <= history[i + 1].enteredAt

LastIsLatest(history) ==
  Len(history) > 0 =>
    \A i \in 1..Len(history) : history[i].enteredAt <= history[Len(history)].enteredAt

\* C11 (as claimed): for actions in any arrival order and any card id, the
\* history is non-decreasing in enteredAt, the synthesized leading entry
\* included, and its last element has the latest timestamp.
C11_ChronologicalAnyOrder ==
  histPc = "done" => (Chronological(histOut) /\ LastIsLatest(histOut))

\* C11 (amended): for actions in the newest-first order in which Trello
\* returns them, and a card id whose creation time is not after any of the
\* actions, the history is non-decreasing in enteredAt, the synthesized
\* leading entry included, and its last element has the latest timestamp.
C11_ChronologicalNewestFirst ==
  (histPc = "done" /\ NewestFirst(histActions)
     /\ CreatedBeforeActions(histActions, histCardId))
    => (Chronological(histOut) /\ LastIsLatest(histOut))

\* A newest-first log of two moves at different times, no createCard, whose
\* history starts with the synthesized entry.
C11_Witness ==
  /\ histPc = "done"
  /\ NewestFirst(histActions)
  /\ CreatedBeforeActions(histActions, histCardId)
  /\ Len(histActions) = 2
  /\ histActions[1].date > histActions[2].date
  /\ Len(histOut) = 3
  /\ histOut[1].enteredAt < histOut[2].enteredAt
  /\ histOut[2].enteredAt < histOut[3].enteredAt

\* C12 (as claimed): for an action list as Trello returns it,
\* getListMovementsChronological and buildCardHistory return sequences of
\* the same length whose entries pairwise have the same instant and the same
\* list (id against name), and for a copied card both begin with listBefore
\* entered at the creation time decoded from the card id.
C12_SameMovements ==
  (histPc = "days" /\ AsFromTrello(histActions, histCardId)) =>
    /\ Len(histMoves) = Len(histOut)
    /\ \A i \in 1..Len(histMoves) :
         /\ histMoves[i].enteredAt = histOut[i].enteredAt
         /\ histMoves[i].listId = ListIdOf(histOut[i].listName)
    /\ CopiedCardCase(histActions) =>
         LET ret == Retained(histActions)
         IN  /\ histOut[1] = [listName |-> ret[Len(ret)].listBefore,
                              enteredAt |-> getCardCreationDate(histCardId)]
             /\ histMoves[1] = [listId |-> ListIdOf(ret[Len(ret)].listBefore),
                                enteredAt |-> getCardCreationDate(histCardId)]

\* The list entries of a card: one per retained action, oldest first, led in
\* the copied-card case by the entry into listBefore at the creation time.
CardEntries(actions, cardId) ==
  LET ret == Retained(actions)
      entries == [i \in 1..Len(ret) |->
                    LET a == ret[Len(ret) + 1 - i]
                    IN  [listId |-> ListIdOf(IF a.type = "createCard" THEN a.list
                                             ELSE a.listAfter),
                         enteredAt |-> a.date]]
  IN  IF CopiedCardCase(actions)
      THEN <<[listId |-> ListIdOf(ret[Len(ret)].listBefore),
              enteredAt |-> getCardCreationDate(cardId)]>> \o entries
      ELSE entries

EntriesInto(entries, listId) ==
  {i \in 1..Len(entries) : entries[i].listId = listId}

FirstOf(S) == CHOOSE i \in S : \A j \in S : i <= j

LastOf(S) == CHOOSE i \in S : \A j \in S : j <= i

\* What the claim says of a card with the given entries: null without a
\* released entry or without a current-work entry strictly before the first
\* released one, else the rounded days between the latest such entry and it.
DaysAsClaimed(entries, settings, days) ==
  LET rel == EntriesInto(entries, settings.released)
  IN  IF rel = {} THEN days = Null
      ELSE LET releasedAt == entries[FirstOf(rel)].enteredAt
               cw == {i \in EntriesInto(entries, settings.currentWork) :
                        entries[i].enteredAt < releasedAt}
           IN  IF cw = {} THEN days = Null
               ELSE /\ days >= 0
                    /\ 2 * MsPerDay * days <=
                         2 * (releasedAt - entries[LastOf(cw)].enteredAt) + MsPerDay
                    /\ 2 * MsPerDay * days >
                         2 * (releasedAt - entries[LastOf(cw)].enteredAt) - MsPerDay

\* C13 (as claimed): for an action list as Trello returns it,
\* getDaysFromCurrentWorkToReleased returns null exactly when the card never
\* entered the released list or has no entry into the current-work list
\* strictly before its first released entry; otherwise the non-negative
\* rounded number of days from the latest such current-work entry to the
\* first released entry, whatever entries follow the first release.
C13_DaysCurrentWorkToReleased ==
  (histPc = "days" /\ AsFromTrello(histActions, histCardId)) =>
    DaysAsClaimed(CardEntries(histActions, histCardId), histLists, histDays)

(***************************************************************************)
(* Claims about the List Report pipeline (checked under SpecReport)        *)
(***************************************************************************)

\* C8: fetchWithRetry calls fetchFn at most maxRetries + 1 times: a call is
\* pending only while attempts remain, a response that is not a 429 is
\* returned at once, a wait follows only a 429 with attempts left, and
\* "Failed to fetch" is thrown on the (maxRetries + 1)-th 429; when a card
\* request of a report throws, aggregateCardData rejects and generateReport
\* ends with the error alert and without a download.
C8_RetryBoundedAndPropagated ==
  /\ \A s \in Slots :
       LET f == repFetch[s]
       IN /\ f.attempt <= f.maxRetries
          /\ f.calls <= f.maxRetries + 1
          /\ f.calls = f.attempt + (IF f.phase \in {"idle", "call"} THEN 0 ELSE 1)
          /\ f.phase = "returned" => f.resp \in Responses /\ f.resp.status # 429
          /\ f.phase = "wait" => f.resp.status = 429 /\ f.attempt < f.maxRetries
          /\ (f.phase = "threw" /\ f.resp.status = 429)
               => f.calls = f.maxRetries + 1 /\ f.err = "Failed to fetch"
  /\ (repEntry # "fetchWithRetry" /\ \E s \in Slots : repFetch[s].phase = "threw")
       => /\ repPc = "done"
          /\ repError # NoError
          /\ repDownloads = 0
          /\ repEntry = "generateReport" => repAlert = "error"
          /\ repEntry = "aggregateCardData" => repResult = "rejected"

\* C8 witness: in a generateReport run a card request got a 429 on each of
\* its DefaultMaxRetries + 1 calls and the run ended with the error alert.
C8_Witness ==
  /\ repEntry = "generateReport"
  /\ repPc = "done"
  /\ repAlert = "error"
  /\ repError.msg = "Failed to fetch"
  /\ repDownloads = 0
  /\ \E s \in Slots :
       /\ repFetch[s].phase = "threw"
       /\ repFetch[s].calls = DefaultMaxRetries + 1
       /\ repFetch[s].resp.status = 429

\* C9 as stated: a fetch failure is raised only after the retries are
\* exhausted, so a fetchWithRetry that threw has used all its retries.
C9_NetworkErrorsRetried ==
  \A s \in Slots :
    repFetch[s].phase = "threw" => repFetch[s].attempt = repFetch[s].maxRetries

\* C9 amended: a network rejection is never retried.  Only a 429 response is
\* waited on; a returned response is a response that is not a 429; a throw
\* is either "Network error", raised in the iteration whose fetchFn
\* rejected (no response), or "Failed to fetch" on a 429 with no retry left.
C9_OnlyRateLimitRetried ==
  \A s \in Slots :
    LET f == repFetch[s]
    IN /\ f.phase = "wait" => f.resp.status = 429 /\ f.attempt < f.maxRetries
       /\ f.phase = "returned" => f.resp \in Responses /\ f.resp.status # 429
       /\ f.phase = "threw" =>
            \/ f.err = "Network error" /\ f.resp = NoResponse
            \/ /\ f.err = "Failed to fetch"
               /\ f.resp.status = 429
               /\ f.attempt = f.maxRetries

\* C9 witness: fetchFn rejected on the second attempt of a fetchWithRetry
\* with retries left, and fetchWithRetry threw after that second call.
C9_Witness ==
  /\ repEntry = "fetchWithRetry"
  /\ repFetch["actions"].phase = "threw"
  /\ repFetch["actions"].err = "Network error"
  /\ repFetch["actions"].attempt = 1
  /\ repFetch["actions"].calls = 2
  /\ repFetch["actions"].maxRetries > 1

ConfigGapRun ==
  /\ repEntry = "generateReport"
  /\ repPc = "done"
  /\ repAlert # "authorize"
  /\ repCards # <<>>
  /\ repFailed = {}
  /\ ~({"currentWorkListId", "releasedListId"} \subseteq repSettings)

\* Such a run called downloadCSV once, with a header without "Avg days", and
\* ended with the success alert.
DegradedGracefully ==
  /\ repDownloads = 1
  /\ "Avg days" \notin repHeader
  /\ repAlert = "success"

\* C26: with a non-empty list, a valid token and every fetch succeeding, a
\* run of generateReport on a board whose current-work or released list is
\* not configured runs to the end: downloadCSV is called exactly once, the
\* header of the CSV has no "Avg days" column and the error alert is never
\* shown.
C26_ConfigGapsDegradeGracefully ==
  ConfigGapRun => DegradedGracefully

\* The same run where window.ListReport.api.getQaListId is the storage read
\* that the call at line 526 expects: there the claim holds.
C26_GracefulWithQaGetter ==
  (ConfigGapRun /\ repQaGetter = QaGetterAsSpecified) => DegradedGracefully

(***************************************************************************)
(* Claims about the aggregation and the CSV totals (checked under SpecAgg) *)
(***************************************************************************)

\* The cards counted for row r: those that name member r, or, for
\* "unassigned", those without a member.
CardsOf(r) ==
  {i \in DOMAIN aggCards :
     IF r = "unassigned" THEN aggCards[i].idMembers = <<>>
     ELSE \E j \in DOMAIN aggCards[i].idMembers : aggCards[i].idMembers[j] = r}

\* The Size and Days to Release bucket a card belongs to.
SizeBucketOf(card) ==
  IF ~aggSizeField THEN "none"
  ELSE IF card.size # NoValue THEN card.size ELSE "No Size"

DaysBucketOf(card) ==
  IF ~aggDaysField THEN "none"
  ELSE IF card.days # NoValue THEN card.days ELSE "No Days to Release"

RECURSIVE SumSeq(_)
SumSeq(q) == IF q = <<>> THEN 0 ELSE q[1] + SumSeq(Tail(q))

\* C5: each member's total is the number of cards that name the member and
\* "unassigned" has the number of cards without members; a card adds 1 to
\* its Size and its Days to Release bucket for each of its members; every
\* count cell of the TOTALS row is the sum of its column over the member
\* rows, so TOTALS Total Cards is the sum over the cards of max(1, N).
C5_MembershipFanOut ==
  aggPc = "done" =>
    /\ \A r \in Members \cup {"unassigned"} :
         IF CardsOf(r) = {} THEN r \notin DOMAIN aggData.memberData
         ELSE /\ r \in DOMAIN aggData.memberData
              /\ aggData.memberData[r].total = Cardinality(CardsOf(r))
              /\ \A b \in {"S", "L", "No Size", "none"} :
                   GetOr0(aggData.memberData[r].sizes, b) =
                     IF b = "none" THEN 0
                     ELSE Cardinality({i \in CardsOf(r) :
                                         SizeBucketOf(aggCards[i]) = b})
              /\ \A b \in {"3", "No Days to Release", "none"} :
                   GetOr0(aggData.memberData[r].daysToRelease, b) =
                     IF b = "none" THEN 0
                     ELSE Cardinality({i \in CardsOf(r) :
                                         DaysBucketOf(aggCards[i]) = b})
    /\ Len(aggCsv.rows) = Cardinality(DOMAIN aggData.memberData)
    /\ \A c \in DOMAIN aggCsv.totalsRow.cells :
         aggCsv.totalsRow.cells[c] =
           SumSeq([k \in DOMAIN aggCsv.rows |-> aggCsv.rows[k].cells[c]])
    /\ aggCsv.totalsRow.cells[Len(aggCsv.totalsRow.cells)] =
         SumSeq([i \in DOMAIN aggCards |->
                   IF Len(aggCards[i].idMembers) = 0 THEN 1
                   ELSE Len(aggCards[i].idMembers)])

\* C5 witness: one card, Size "L", two members: each member has the card in
\* its "L" bucket and the TOTALS row shows 2 in "Size L" and in Total Cards.
C5_Witness ==
  /\ aggPc = "done"
  /\ Len(aggCards) = 1
  /\ aggCards[1].idMembers = <<"m1", "m2">>
  /\ aggCards[1].size = "L"
  /\ aggSizeField
  /\ aggData.memberData["m1"].sizes["L"] = 1
  /\ aggData.memberData["m2"].sizes["L"] = 1
  /\ aggCsv.header[2] = <<"Size ", "L">>
  /\ aggCsv.totalsRow.cells[1] = 2
  /\ aggCsv.totalsRow.cells[Len(aggCsv.totalsRow.cells)] = 2

\* The cells of a row below the Size columns, below the Days to Release
\* columns, and in the Total Cards column.
SizeCells(row) == SubSeq(row.cells, 1, Len(aggData.uniqueSizes))

DaysCells(row) ==
  SubSeq(row.cells, Len(aggData.uniqueSizes) + 1,
         Len(aggData.uniqueSizes) + Len(aggData.uniqueDaysToRelease))

TotalCell(row) == row.cells[Len(row.cells)]

\* The sentinel, when a column list has it, is its last element.
SentinelLast(columns, sentinel) ==
  \A i \in DOMAIN columns : columns[i] = sentinel => i = Len(columns)

\* C16: with a Size field on the board the Size columns of every member row,
\* "No Size" included, add up to the row's Total Cards, "No Size" is a
\* column exactly when a card has no size and is then the last Size column;
\* without a Size field the report has no Size column.  The same for Days to
\* Release and "No Days to Release".
C16_SentinelBuckets ==
  aggPc = "done" =>
    /\ Len(aggCsv.header) =
         1 + Len(aggData.uniqueSizes) + Len(aggData.uniqueDaysToRelease) + 3
    /\ \A k \in DOMAIN aggCsv.rows :
         Len(aggCsv.rows[k].cells) = Len(aggCsv.header) - 1
    /\ IF aggSizeField
       THEN /\ \A k \in DOMAIN aggCsv.rows :
                 SumSeq(SizeCells(aggCsv.rows[k])) = TotalCell(aggCsv.rows[k])
            /\ SentinelLast(aggData.uniqueSizes, "No Size")
            /\ (\E i \in DOMAIN aggData.uniqueSizes :
                   aggData.uniqueSizes[i] = "No Size")
                 <=> (\E c \in DOMAIN aggCards : aggCards[c].size = NoValue)
       ELSE aggData.uniqueSizes = <<>>
    /\ IF aggDaysField
       THEN /\ \A k \in DOMAIN aggCsv.rows :
                 SumSeq(DaysCells(aggCsv.rows[k])) = TotalCell(aggCsv.rows[k])
            /\ SentinelLast(aggData.uniqueDaysToRelease, "No Days to Release")
            /\ (\E i \in DOMAIN aggData.uniqueDaysToRelease :
                   aggData.uniqueDaysToRelease[i] = "No Days to Release")
                 <=> (\E c \in DOMAIN aggCards : aggCards[c].days = NoValue)
       ELSE aggData.uniqueDaysToRelease = <<>>

\* Two cards of one member on a board with a Size field, one of size "S" and
\* one without a size: the columns are "Size S" and then "No Size", each
\* holds 1, and Total Cards is 2.
C16_Witness ==
  /\ aggPc = "done"
  /\ aggSizeField
  /\ Len(aggCards) = 2
  /\ aggCards[1].idMembers = <<"m1">> /\ aggCards[2].idMembers = <<"m1">>
  /\ aggCards[1].size = NoValue /\ aggCards[2].size = "S"
  /\ aggData.uniqueSizes = <<"S", "No Size">>
  /\ aggCsv.header[2] = <<"Size ", "S">> /\ aggCsv.header[3] = <<"No Size">>
  /\ Len(aggCsv.rows) = 1
  /\ SizeCells(aggCsv.rows[1]) = <<1, 1>>
  /\ TotalCell(aggCsv.rows[1]) = 2

(***************************************************************************)
(* Claims about On Time / Past Due (checked under SpecDue)                 *)
(***************************************************************************)

\* The actions of a log by which dueComplete becomes true.
CompletionTransitions(actions) ==
  {i \in 1..Len(actions) :
     /\ actions[i].type = "updateCard"
     /\ actions[i].dueComplete = "true"
     /\ actions[i].old # "true"}

\* The date of the newest of them.
NewestCompletion(actions) ==
  LET T == CompletionTransitions(actions)
  IN  actions[CHOOSE i \in T : \A j \in T : actions[j].date <= actions[i].date].date

DueKeys(card) ==
  IF Len(card.idMembers) = 0 THEN {"unassigned"}
  ELSE {card.idMembers[i] : i \in 1..Len(card.idMembers)}

CompleteAfterReplay(actions) ==
  LET C == {i \in 1..Len(actions) : actions[i].dueComplete \in {"true", "false"}}
  IN  /\ C # {}
      /\ actions[CHOOSE i \in C : \A j \in C : i <= j].dueComplete = "true"

\* C15 (as claimed): a card whose log replays to dueComplete = false, because
\* it was never completed or its completion was undone later, adds to
\* neither On Time nor Past Due.
C15_UncompletedExcluded ==
  (duePc = "done" /\ ~CompleteAfterReplay(dueActions)) =>
    \A k \in DOMAIN dueData : dueData[k].onTime = 0 /\ dueData[k].pastDue = 0

(***************************************************************************)
(* Claims about formatBusinessTime (checked under SpecFmt)                 *)
(***************************************************************************)

\* "1 unit" or "N units".
Counted(n, unit) ==
  IF n = 1 THEN "1 " \o unit ELSE NumberToString(n) \o " " \o unit \o "s"

C24_DaysNotWeeks ==
  (fmtPc = "done" /\ fmtMinutes = 43140) =>
    (fmtOut = "29 days 23h" /\ fmtOut # "4 weeks")

\* C24 (amended): every duration of 29 days and less than a day more, 29
\* days 23 hours among them, is formatted as "4 weeks", the whole weeks of
\* its 29 days.
C24_WeeksNotDays ==
  (fmtPc = "done" /\ fmtMinutes \div 1440 = 29) => fmtOut = "4 weeks"

C24_Witness == fmtPc = "done" /\ fmtMinutes = 43140 /\ fmtOut = "4 weeks"

(***************************************************************************)
(* Claims about escapeCSV (checked under SpecCsv)                          *)
(***************************************************************************)

\* A standard CSV field decoder on the text of one field.  Inside quotes a
\* doubled quote is a quote and a single quote ends the field; without
\* quotes the field ends at a comma or a newline.  The result is the decoded
\* value and the text left over.
RECURSIVE DecodeQuoted(_, _)
DecodeQuoted(text, value) ==
  IF text = <<>> THEN [value |-> value, rest |-> <<>>, closed |-> FALSE]
  ELSE IF text[1] = "\""
    THEN IF Len(text) >= 2 /\ text[2] = "\""
         THEN DecodeQuoted(SubSeq(text, 3, Len(text)), Append(value, "\""))
         ELSE [value |-> value, rest |-> Tail(text), closed |-> TRUE]
  ELSE DecodeQuoted(Tail(text), Append(value, text[1]))

RECURSIVE DecodeRaw(_, _)
DecodeRaw(text, value) ==
  IF text = <<>> \/ text[1] \in {",", "\n"}
  THEN [value |-> value, rest |-> text, closed |-> TRUE]
  ELSE DecodeRaw(Tail(text), Append(value, text[1]))

DecodeField(text) ==
  IF text # <<>> /\ text[1] = "\"" THEN DecodeQuoted(Tail(text), <<>>)
  ELSE DecodeRaw(text, <<>>)

NeedsQuoting(chars) == \E i \in 1..Len(chars) : chars[i] \in {",", "\"", "\n"}

\* C25: escapeCSV(s) is s itself when s holds no comma, quote or newline,
\* and else s between double quotes with each of its quotes doubled, so that
\* a standard CSV field decoder takes the whole of escapeCSV(s) and gives s
\* back; null and undefined give the empty string.
C25_EscapeRoundTrip ==
  csvPc = "done" =>
    IF csvValue.kind \in {"null", "undefined"} THEN csvOut = <<>>
    ELSE /\ ~NeedsQuoting(csvValue.chars) => csvOut = csvValue.chars
         /\ NeedsQuoting(csvValue.chars) =>
              /\ csvOut[1] = "\"" /\ csvOut[Len(csvOut)] = "\""
              /\ Len(csvOut) = Len(csvValue.chars) + 2
                   + Cardinality({i \in 1..Len(csvValue.chars) :
                                    csvValue.chars[i] = "\""})
         /\ DecodeField(csvOut) =
              [value |-> csvValue.chars, rest |-> <<>>, closed |-> TRUE]

\* The name a,"a with a comma and quotes becomes "a,""a".
C25_Witness ==
  /\ csvPc = "done"
  /\ csvValue = [kind |-> "string", chars |-> <<"a", ",", "\"", "a">>]
  /\ csvOut = <<"\"", "a", ",", "\"", "\"", "a", "\"">>
  /\ DecodeField(csvOut).value = csvValue.chars

(***************************************************************************)
(* Claims about calculateCurrentListTime (checked under SpecCur)           *)
(***************************************************************************)

\* C22: calculateBusinessMinutes fails fast on an invalid date: when the
\* start date of calculateCurrentListTime is invalid (it comes from
\* getCardCreationDate on a malformed card id) the call raises an error; it
\* never returns a number of minutes, in particular never 0.
C22_InvalidDateRaises ==
  (curPc = "done" /\ curApi = "ok" /\ ~IsValid(curStart))
    => curResult = "raised"

\* C29: for a ledger of non-overlapping pause events and a window from
\* startDate to now with startDate <= now, the paused minutes in the window
\* never exceed the business minutes of the window, so Math.max(0, ...) does
\* not change the difference.
C29_PausedWithinElapsed ==
  (curPc = "done" /\ curApi = "ok" /\ IsValid(curStart)
     /\ ~IsBefore(curNow, curStart))
    => /\ curPaused <= curTotal
       /\ curActive = curTotal - curPaused

(***************************************************************************)
(* Claims about interleaved operations (checked under SpecIlv)             *)
(***************************************************************************)

AllDone == \A p \in Procs : ilvProc[p].pc = "done"

OpenEvents(ev) == {i \in 1..Len(ev) : ev[i].resumedAt = NoTime}

\* What p appended or closed is in the stored array.
Kept(p) ==
  LET did == ilvProc[p].did
  IN  /\ did.kind = "append"
           => \E i \in 1..Len(ilvEvents) : ilvEvents[i].pausedAt = did.at
      /\ did.kind = "close"
           => \E i \in 1..Len(ilvEvents) : ilvEvents[i].resumedAt = did.at

\* A check that closed an event closed an automatic one.
ClosedOnlyAuto(p) ==
  (ilvProc[p].op = "check" /\ ilvProc[p].did.kind = "close")
    => \A i \in 1..Len(ilvEvents) :
         ilvEvents[i].resumedAt = ilvProc[p].did.at
           => ilvEvents[i].reason = "auto"

LedgerSafe ==
  /\ Cardinality(OpenEvents(ilvEvents)) <= 1
  /\ \A p \in Procs : Kept(p) /\ ClosedOnlyAuto(p)

\* C27: when two operations on one card (togglePauseResume,
\* checkAndHandleAutoPauseResume) interleave at their storage awaits, the
\* pauseEvents stored at the end has at most one open event, holds every
\* event either operation appended or closed, and no manual pause was closed
\* by the check.
C27_SafeUnderInterleaving ==
  AllDone => LedgerSafe

\* The same for the runs in which each operation ends before the next one
\* starts.
C27_SafeWhenSerial ==
  (AllDone /\ ilvSerial) => LedgerSafe

(***************************************************************************)
(* Claims about Start Case (checked under SpecStartCase)                   *)
(***************************************************************************)

\* C30: in every execution of startCaseCallback that ends in the catch
\* branch (alert "An error occurred while moving the card.") none of the
\* mutations was applied: the card was not moved to IN DEVELOPMENT, no
\* member was assigned, no due date was set.
C30_UnchangedOnError ==
  (scPc = "done" /\ scAlert = "An error occurred while moving the card.")
    => /\ scApplied = {}
       /\ scCard.due # "new"

\* The part that holds: the move and the assignment are applied together,
\* the due date only after them, and a failure up to the first PUT leaves
\* the card as it was.
C30_MoveAndAssignTogether ==
  /\ scApplied \in {{}, {"move", "assign"}, {"move", "assign", "due"}}
  /\ scPc \in {"token", "lists", "update"} => scApplied = {}

====
